---------------------------- MODULE Spec2Model ----------------------------
(***************************************************************************)
(* giddy: estimation of discrete Markov chains from panel data             *)
(* (giddy/markov.py), their steady states and mean first passage times     *)
(* (giddy/ergodic.py) and the repair of empty rows (giddy/util.py).        *)
(*                                                                         *)
(* Arrays are functions over 0..k-1, as numpy indexes them.  A float is an *)
(* exact rational <<n, d>> in lowest terms with d > 0; the IEEE values     *)
(* +inf, -inf and nan are <<1, 0>>, <<-1, 0>> and <<0, 0>>.  Round-off is   *)
(* not modelled: a matrix is singular exactly when its determinant is 0.   *)
(* Every matrix is an array of floats, as the estimators build them.       *)
(***************************************************************************)
EXTENDS Integers, Sequences, FiniteSets, TLC

(***************************************************************************)
(* Bounds of the model.                                                    *)
(***************************************************************************)
\* largest number of states k of a matrix handed to the solvers
MaxK == 4
\* largest number of observed transitions in the count matrix behind it
MaxMoves == 4
\* units n, periods t and distinct labels of a panel handed to the estimators
NumUnits == 2
NumPeriods == 3
NumLabels == 3
\* lag classes m of a Spatial_Markov panel
NumLags == 2

(***************************************************************************)
(* Float arithmetic.                                                       *)
(***************************************************************************)
AbsInt(x) == IF x < 0 THEN -x ELSE x

SignInt(x) == IF x < 0 THEN -1 ELSE IF x = 0 THEN 0 ELSE 1

RECURSIVE GCD(_, _)
GCD(a, b) == IF b = 0 THEN a ELSE GCD(b, a % b)

\* the float n/d; a zero denominator gives inf, -inf or nan as IEEE division does
Rat(n, d) ==
    IF d = 0 THEN <<SignInt(n), 0>>
    ELSE LET g == GCD(AbsInt(n), AbsInt(d))
             s == IF d < 0 THEN -1 ELSE 1
         IN <<(s * n) \div g, (s * d) \div g>>

Zero == <<0, 1>>
One == <<1, 1>>
Inf == <<1, 0>>
NegInf == <<-1, 0>>
NaN == <<0, 0>>

IsFinite(x) == x[2] # 0

RAdd(x, y) ==
    IF IsFinite(x) /\ IsFinite(y) THEN Rat(x[1] * y[2] + y[1] * x[2], x[2] * y[2])
    ELSE IF x = NaN \/ y = NaN THEN NaN
    ELSE IF IsFinite(x) THEN y
    ELSE IF IsFinite(y) THEN x
    ELSE IF x = y THEN x ELSE NaN

RNeg(x) == <<-x[1], x[2]>>

RSub(x, y) == RAdd(x, RNeg(y))

RMul(x, y) == Rat(x[1] * y[1], x[2] * y[2])

RDiv(x, y) ==
    IF IsFinite(x) /\ IsFinite(y) THEN Rat(x[1] * y[2], x[2] * y[1])
    ELSE IF IsFinite(x) /\ y # NaN THEN Zero
    ELSE IF IsFinite(y) /\ x # NaN THEN <<x[1] * (IF y[1] < 0 THEN -1 ELSE 1), 0>>
    ELSE NaN

RAbs(x) == <<AbsInt(x[1]), x[2]>>

\* bool -> float, as numpy adds a boolean array to a float array
B2F(b) == IF b THEN One ELSE Zero

(***************************************************************************)
(* numpy arrays.                                                           *)
(***************************************************************************)
Range(n) == 0 .. (n - 1)

\* numpy computes an array when it is built: the array as an explicit table
\* of its elements, for 1, 2 and 3 axes
Array1(v) == v @@ << >>

Array2(A) == Array1([i \in DOMAIN A |-> Array1(A[i])])

Array3(A) == Array1([i \in DOMAIN A |-> Array2(A[i])])

\* an assignment "v = e": e is evaluated once, and F is what follows with v
Bind(e, F(_)) == CHOOSE r \in {F(v) : v \in {e}} : TRUE

Len0(a) == Cardinality(DOMAIN a)

\* number of axes: a float is a pair over 1..2, an array is indexed from 0
RECURSIVE Ndim(_)
Ndim(a) == IF 0 \in DOMAIN a THEN 1 + Ndim(a[0]) ELSE 0

RECURSIVE SumUpTo(_, _)
SumUpTo(v, n) == IF n = 0 THEN Zero ELSE RAdd(SumUpTo(v, n - 1), v[n - 1])

\* v.sum() of a 1-d array
VSum(v) == SumUpTo(v, Len0(v))

Identity(k) == Array2([i \in Range(k) |-> [j \in Range(k) |-> B2F(i = j)]])

MatAdd(A, B) == Array2([i \in DOMAIN A |-> [j \in DOMAIN A[i] |-> RAdd(A[i][j], B[i][j])]])

MatSub(A, B) == Array2([i \in DOMAIN A |-> [j \in DOMAIN A[i] |-> RSub(A[i][j], B[i][j])]])

MatMul(A, B) ==
    Array2([i \in DOMAIN A |-> [j \in DOMAIN B[0] |->
        VSum([l \in DOMAIN B |-> RMul(A[i][l], B[l][j])])]])

\* np.diag of a 1-d array: the diagonal matrix; of a 2-d array: its diagonal
DiagMat(v) == Array2([i \in DOMAIN v |-> [j \in DOMAIN v |-> IF i = j THEN v[i] ELSE Zero]])

DiagVec(A) == Array1([i \in DOMAIN A |-> A[i][i]])

\* the s-th index left after np.delete(..., d)
Skip(s, d) == IF s < d THEN s ELSE s + 1

\* np.delete(np.delete(P, d, 0), d, 1)
DeleteRowCol(P, d) ==
    Array2([i \in Range(Len0(P) - 1) |-> [j \in Range(Len0(P) - 1) |-> P[Skip(i, d)][Skip(j, d)]]])

\* the elements of a set of indices in increasing order, as a 0-based array
RECURSIVE SortedIdx(_)
SortedIdx(S) ==
    IF S = {} THEN << >>
    ELSE LET lo == CHOOSE x \in S : \A y \in S : x <= y
             rest == SortedIdx(S \ {lo})
         IN Array1([i \in Range(Cardinality(S)) |-> IF i = 0 THEN lo ELSE rest[i - 1]])

\* A[idx, :][:, idx]
SubMatrix(A, idx) == Array2([i \in DOMAIN idx |-> [j \in DOMAIN idx |-> A[idx[i]][idx[j]]]])

(***************************************************************************)
(* numpy.linalg: solve and inv by Gauss-Jordan elimination on the          *)
(* augmented matrix.  A zero pivot column is LinAlgError("Singular         *)
(* matrix").                                                               *)
(***************************************************************************)
RECURSIVE GaussJordan(_, _, _, _)
GaussJordan(M, n, w, c) ==
    IF c = n THEN [singular |-> FALSE, right |-> Array2([i \in Range(n) |-> [j \in Range(w) |-> M[i][n + j]]])]
    ELSE LET cand == {r \in c .. (n - 1) : M[r][c] # Zero}
         IN IF cand = {} THEN [singular |-> TRUE]
            ELSE LET r == CHOOSE x \in cand : \A y \in cand : x <= y
                     piv == M[r][c]
                     prow == Array1([j \in Range(n + w) |-> RDiv(M[r][j], piv)])
                     Sw == [i \in Range(n) |-> IF i = c THEN prow ELSE IF i = r THEN M[c] ELSE M[i]]
                     M2 == Array2([i \in Range(n) |->
                              IF i = c \/ Sw[i][c] = Zero THEN Sw[i]
                              ELSE [j \in Range(n + w) |-> RSub(Sw[i][j], RMul(Sw[i][c], prow[j]))]])
                 IN GaussJordan(M2, n, w, c + 1)

\* np.linalg.solve(A, b) for a 1-d b
LinalgSolve(A, b) ==
    LET n == Len0(A)
        g == GaussJordan([i \in Range(n) |-> [j \in Range(n + 1) |-> IF j < n THEN A[i][j] ELSE b[i]]], n, 1, 0)
    IN IF g.singular THEN [singular |-> TRUE]
       ELSE [singular |-> FALSE, x |-> Array1([i \in Range(n) |-> g.right[i][0]])]

\* np.linalg.inv(A)
LinalgInv(A) ==
    LET n == Len0(A)
        g == GaussJordan([i \in Range(n) |-> [j \in Range(2 * n) |->
                            IF j < n THEN A[i][j] ELSE B2F(i = j - n)]], n, n, 0)
    IN IF g.singular THEN [singular |-> TRUE]
       ELSE [singular |-> FALSE, inv |-> g.right]

(***************************************************************************)
(* Outcomes of a call: a returned value or a raised exception.             *)
(***************************************************************************)
Returned(v) == [raised |-> "none", value |-> v]

\* the message of the ValueError carries the count of rows full of 0s ("%d rows")
ValueError(rows0) == [raised |-> "ValueError", rows0 |-> rows0]

LinAlgError == [raised |-> "LinAlgError"]

(***************************************************************************)
(* giddy/util.py                                                           *)
(***************************************************************************)
\* p_temp.sum(axis=1) == 0, the rows of a 2-d array that sum to 0
ZeroRows(p) == {i \in DOMAIN p : VSum(p[i]) = Zero}

\* fault: "p0 = p_temp.diagonal() == 0", the rows with an empty diagonal instead
\* of the rows that sum to 0
_fill_empty_diagonal_2d_diag(p) ==
    Array2([i \in DOMAIN p |-> [j \in DOMAIN p[i] |->
        IF p[i][i] = Zero /\ j = i THEN One ELSE p[i][j]]])

_fill_empty_diagonal_2d(p) ==
    LET p0 == ZeroRows(p)
    IN Array2([i \in DOMAIN p |-> [j \in DOMAIN p[i] |->
          IF i \in p0 /\ j = i THEN One ELSE p[i][j]]])

\* fault: the empty rows of the first matrix are taken for every matrix
_fill_empty_diagonal_3d_first(p) ==
    LET p0 == {rc \in (DOMAIN p) \X (DOMAIN p[0]) : VSum(p[0][rc[2]]) = Zero}
    IN Array3([l \in DOMAIN p |-> [i \in DOMAIN p[l] |-> [j \in DOMAIN p[l][i] |->
          IF <<l, i>> \in p0 /\ j = i THEN One ELSE p[l][i][j]]]])

_fill_empty_diagonal_3d(p) ==
    LET p0 == {rc \in (DOMAIN p) \X (DOMAIN p[0]) : VSum(p[rc[1]][rc[2]]) = Zero}
    IN Array3([l \in DOMAIN p |-> [i \in DOMAIN p[l] |-> [j \in DOMAIN p[l][i] |->
          IF <<l, i>> \in p0 /\ j = i THEN One ELSE p[l][i][j]]]])

NotImplementedError == [raised |-> "NotImplementedError"]

fill_empty_diagonals(p) ==
    IF Ndim(p) = 3 THEN _fill_empty_diagonal_3d(p)
    ELSE IF Ndim(p) = 2 THEN _fill_empty_diagonal_2d(p)
    ELSE NotImplementedError

(***************************************************************************)
(* quantecon.MarkovChain, as giddy uses it: the communication classes are  *)
(* the strongly connected components of the graph of the non-zero entries, *)
(* the recurrent classes are the closed ones, and there is one stationary  *)
(* distribution per recurrent class.  Classes are listed by their smallest *)
(* state.                                                                  *)
(***************************************************************************)
RECURSIVE ReachableFrom(_, _)
ReachableFrom(P, S) ==
    LET nxt == S \cup {j \in DOMAIN P : \E i \in S : P[i][j] # Zero}
    IN IF nxt = S THEN S ELSE ReachableFrom(P, nxt)

communication_classes(P) ==
    LET reach == [i \in DOMAIN P |-> ReachableFrom(P, {i})]
    IN {{j \in reach[i] : i \in reach[j]} : i \in DOMAIN P}

recurrent_classes(P) ==
    {C \in communication_classes(P) : \A i \in C : \A j \in DOMAIN P : P[i][j] # Zero => j \in C}

num_communication_classes(P) == Cardinality(communication_classes(P))

num_recurrent_classes(P) == Cardinality(recurrent_classes(P))

\* a set of classes as an array of index sets, ordered by smallest member
RECURSIVE ClassList(_)
ClassList(Cs) ==
    IF Cs = {} THEN << >>
    ELSE LET Lo(C) == CHOOSE x \in C : \A y \in C : x <= y
             first == CHOOSE C \in Cs : \A D \in Cs : Lo(C) <= Lo(D)
             rest == ClassList(Cs \ {first})
         IN Array1([i \in Range(Cardinality(Cs)) |-> IF i = 0 THEN first ELSE rest[i - 1]])

communication_classes_indices(P) == ClassList(communication_classes(P))

recurrent_classes_indices(P) == ClassList(recurrent_classes(P))

\* the left eigenvector of an irreducible Q for the eigenvalue 1, scaled to sum 1:
\* the solution of x (Q - I) = 0, sum(x) = 1
UnitEigenvector(Q) ==
    LET n == Len0(Q)
        A == [r \in Range(n) |-> [c \in Range(n) |->
                IF r = n - 1 THEN One ELSE RSub(Q[c][r], B2F(c = r))]]
        b == [r \in Range(n) |-> B2F(r = n - 1)]
    IN LinalgSolve(A, b).x

stationary_distributions(P) ==
    LET rc == recurrent_classes_indices(P)
    IN Array2([c \in DOMAIN rc |->
          LET idx == SortedIdx(rc[c])
              pi == UnitEigenvector(SubMatrix(P, idx))
          IN [s \in DOMAIN P |->
                IF s \in rc[c] THEN pi[CHOOSE i \in DOMAIN idx : idx[i] = s] ELSE Zero]])

(***************************************************************************)
(* giddy/ergodic.py                                                        *)
(***************************************************************************)
_steady_state_ergodic(P) ==
    LET d == UnitEigenvector(P)
        row == Array1([i \in DOMAIN P |-> RAbs(d[i])])
    IN Array1([i \in DOMAIN P |-> RDiv(row[i], VSum(row))])

\* fault: the first distribution is returned whatever the number of classes
steady_state_first(P, fill_empty_classes) ==
    LET rows0 == Cardinality(ZeroRows(P))
    IN IF rows0 > 0 /\ ~fill_empty_classes THEN ValueError(rows0)
       ELSE LET P1 == IF rows0 > 0 THEN fill_empty_diagonals(P) ELSE P
            IN Returned(stationary_distributions(P1)[0])

steady_state(P, fill_empty_classes) ==
    LET rows0 == Cardinality(ZeroRows(P))
    IN IF rows0 > 0 /\ ~fill_empty_classes THEN ValueError(rows0)
       ELSE LET P1 == IF rows0 > 0 THEN fill_empty_diagonals(P) ELSE P
            IN IF num_communication_classes(P1) = 1
               THEN Returned(stationary_distributions(P1)[0])
               ELSE Returned(stationary_distributions(P1))

\* fault: the product with D = diag(1 / A_diag) is left out
_mfpt_ergodic_noD(P) ==
    LET k == Len0(P)
        ss == _steady_state_ergodic(P)
        A == Array2([r \in Range(k) |-> [c \in Range(k) |-> ss[c]]])
        i == Identity(k)
        Zinv == LinalgInv(MatAdd(MatSub(i, P), A))
    IN IF Zinv.singular THEN LinAlgError
       ELSE LET Z == Zinv.inv
                E == Array2([r \in Range(k) |-> [c \in Range(k) |-> One]])
                Zdg == DiagMat(DiagVec(Z))
            IN Returned(MatAdd(MatSub(i, Z), MatMul(E, Zdg)))

_mfpt_ergodic(P) ==
    LET k == Len0(P)
        ss == _steady_state_ergodic(P)
        A == Array2([r \in Range(k) |-> [c \in Range(k) |-> ss[c]]])
        i == Identity(k)
        Zinv == LinalgInv(MatAdd(MatSub(i, P), A))
    IN IF Zinv.singular THEN LinAlgError
       ELSE LET Z == Zinv.inv
                E == Array2([r \in Range(k) |-> [c \in Range(k) |-> One]])
                A_diag0 == DiagVec(A)
                A_diag == Array1([j \in Range(k) |-> RAdd(A_diag0[j], B2F(A_diag0[j] = Zero))])
                D == DiagMat([j \in Range(k) |-> RDiv(One, A_diag[j])])
                Zdg == DiagMat(DiagVec(Z))
            IN Returned(MatMul(MatAdd(MatSub(i, Z), MatMul(E, Zdg)), D))

\* fault: setx keeps only the rows all of whose non-zero entries off the
\* diagonal are in columns of index0
SetX_only_links(p_calc, index0) ==
    {r \in DOMAIN p_calc :
        /\ \E c \in index0 : p_calc[r][c] # Zero
        /\ \A c \in DOMAIN p_calc : (c # r /\ p_calc[r][c] # Zero) => c \in index0}

\* setx: the rows of p_calc with a non-zero entry in a column of index0
SetX(p_calc, index0) == {r \in DOMAIN p_calc : \E c \in index0 : p_calc[r][c] # Zero}

\* while not setx.issubset(index0): index0 = index0.union(setx)
RECURSIVE ExpandIndex0(_, _)
ExpandIndex0(p_calc, index0) ==
    LET setx == SetX(p_calc, index0)
    IN IF setx \subseteq index0 THEN index0 ELSE ExpandIndex0(p_calc, index0 \cup setx)

\* fault: no np.nan_to_num, the nan of 0 * inf stays in the sum
NanToNum_keep(x) == x

\* np.nan_to_num(x, 0, posinf=np.inf): nan becomes 0.0 and +inf stays; -inf would
\* become the most negative float, which the clamp of mfpt treats as -inf
NanToNum(x) == IF x = NaN THEN Zero ELSE x

\* np.where(x < -1e16, inf, x) then np.where(x > 1e16, inf, x); every finite value
\* of the model is below 2^31 in magnitude
Clamp(x) == IF x = NegInf THEN Inf ELSE x

\* one pass of "for desti in range(k)": column desti of mfpt_all, or the
\* LinAlgError that leaves the except block
MfptColumn(P, desti) ==
    LET k == Len0(P)
        b == [s \in Range(k - 1) |-> One]
        p_calc == MatSub(Identity(k - 1), DeleteRowCol(P, desti))
        row0 == [s \in Range(k - 1) |-> Cardinality({c \in Range(k - 1) : p_calc[s][c] # Zero})]
        first == LinalgSolve(p_calc, b)
        handled == first.singular /\ {s \in Range(k - 1) : row0[s] = 0} # {}
        index0 == ExpandIndex0(p_calc, {s \in Range(k - 1) : row0[s] = 0})
        none0 == SortedIdx(Range(k - 1) \ index0)
        second == LinalgSolve(SubMatrix(p_calc, none0), [s \in DOMAIN none0 |-> b[none0[s]]])
        resolve == handled /\ Len0(none0) >= 1
    IN IF resolve /\ second.singular THEN LinAlgError
       ELSE LET m == Array1([s \in Range(k - 1) |->
                        IF ~first.singular THEN first.x[s]
                        ELSE IF resolve /\ s \notin index0
                             THEN second.x[CHOOSE q \in DOMAIN none0 : none0[q] = s]
                             ELSE Inf])
                recc == RAdd(VSum([s \in Range(k - 1) |->
                                     NanToNum(RMul(P[desti][Skip(s, desti)], m[s]))]), One)
            IN Returned(Array1([r \in Range(k) |->
                           IF r = desti THEN recc
                           ELSE IF r < desti THEN m[r] ELSE m[r - 1]]))

RECURSIVE MfptLoop(_, _, _)
MfptLoop(P, desti, mfpt_all) ==
    IF desti = Len0(P) THEN Returned(mfpt_all)
    ELSE LET col == MfptColumn(P, desti)
         IN IF col.raised # "none" THEN col
            ELSE MfptLoop(P, desti + 1,
                          Array2([r \in DOMAIN P |-> [c \in DOMAIN P |->
                              Clamp(IF c = desti THEN col.value[r] ELSE mfpt_all[r][c])]]))

mfpt(P, fill_empty_classes) ==
    LET rows0 == Cardinality(ZeroRows(P))
    IN IF rows0 > 0 /\ ~fill_empty_classes THEN ValueError(rows0)
       ELSE LET P1 == IF rows0 > 0 THEN fill_empty_diagonals(P) ELSE P
            IN IF num_communication_classes(P1) = 1 THEN _mfpt_ergodic(P1)
               ELSE MfptLoop(P1, 0, Array2([r \in DOMAIN P1 |-> [c \in DOMAIN P1 |-> Zero]]))

\* the deprecated alias: warns and calls mfpt
fmpt(P, fill_empty_classes) == mfpt(P, fill_empty_classes)

(***************************************************************************)
(* giddy/markov.py: sojourn_time                                           *)
(***************************************************************************)
\* fault: the rows full of 0s are not repaired first
sojourn_time_nofill(p0) ==
    LET pii == DiagVec(p0)
    IN IF \E i \in DOMAIN pii : RSub(One, pii[i]) = Zero
       THEN Returned(Array1([i \in DOMAIN pii |->
                IF pii[i] = One THEN Inf ELSE RDiv(One, RSub(One, pii[i]))]))
       ELSE Returned(Array1([i \in DOMAIN pii |-> RDiv(One, RSub(One, pii[i]))]))

sojourn_time(p0) ==
    LET p == IF ZeroRows(p0) # {} THEN fill_empty_diagonals(p0) ELSE p0
        pii == DiagVec(p)
    IN IF \E i \in DOMAIN pii : RSub(One, pii[i]) = Zero
       THEN Returned(Array1([i \in DOMAIN pii |->
                IF pii[i] = One THEN Inf ELSE RDiv(One, RSub(One, pii[i]))]))
       ELSE Returned(Array1([i \in DOMAIN pii |-> RDiv(One, RSub(One, pii[i]))]))

(***************************************************************************)
(* giddy/markov.py: Markov                                                 *)
(***************************************************************************)
\* None where an array is optional: the array of length 0
None == << >>

\* np.unique of a 2-d array of labels: the sorted distinct labels
np_unique(a) == SortedIdx({a[u][t] : u \in DOMAIN a, t \in DOMAIN a[0]})

\* classIds.index(i): the first position of label i in the class list
ClassIndex(classIds, i) ==
    CHOOSE r \in DOMAIN classIds : classIds[r] = i /\ \A q \in DOMAIN classIds : classIds[q] = i => r <= q

\* fault: "transitions[row, col] += 1", one per distinct destination instead of
\* one per unit
CountPeriod_once(class_ids, classIds, transitions, s0) ==
    LET state_0 == [u \in DOMAIN class_ids |-> class_ids[u][s0]]
        state_1 == [u \in DOMAIN class_ids |-> class_ids[u][s0 + 1]]
        Moved(row, col) ==
            \E u \in DOMAIN state_0 :
                /\ ClassIndex(classIds, state_0[u]) = row
                /\ ClassIndex(classIds, state_1[u]) = col
    IN Array2([row \in DOMAIN transitions |-> [col \in DOMAIN transitions |->
          RAdd(transitions[row][col], B2F(Moved(row, col)))]])

\* one pass of "for state_0 in js": the counts of period pair (s0, s0 + 1)
\* added to transitions, origin by origin and destination by destination
CountPeriod(class_ids, classIds, transitions, s0) ==
    LET state_0 == [u \in DOMAIN class_ids |-> class_ids[u][s0]]
        state_1 == [u \in DOMAIN class_ids |-> class_ids[u][s0 + 1]]
        initial == {state_0[u] : u \in DOMAIN state_0}
        Ending(i) == {u \in DOMAIN state_0 : state_0[u] = i}
        Added(row, col) ==
            LET is == {i \in initial : ClassIndex(classIds, i) = row}
            IN IF is = {} THEN 0
               ELSE LET i == CHOOSE x \in is : TRUE
                        uending == {state_1[u] : u \in Ending(i)}
                        js == {j \in uending : ClassIndex(classIds, j) = col}
                    IN IF js = {} THEN 0
                       ELSE Cardinality({u \in Ending(i) : state_1[u] = CHOOSE j \in js : TRUE})
    IN Array2([row \in DOMAIN transitions |-> [col \in DOMAIN transitions |->
          RAdd(transitions[row][col], Rat(Added(row, col), 1))]])

RECURSIVE CountLoop(_, _, _, _)
CountLoop(class_ids, classIds, transitions, s0) ==
    IF s0 >= Len0(class_ids[0]) - 1 THEN transitions
    ELSE Bind(CountPeriod(class_ids, classIds, transitions, s0),
              LAMBDA counted : CountLoop(class_ids, classIds, counted, s0 + 1))

\* fault: "1 / row_sum", without the + (row_sum == 0) that guards empty rows
RowNormalize_unguarded(transitions) ==
    Bind(Array1([i \in DOMAIN transitions |-> VSum(transitions[i])]), LAMBDA row_sum :
    Bind(DiagMat([i \in DOMAIN transitions |-> RDiv(One, row_sum[i])]), LAMBDA scale :
    MatMul(scale, transitions)))

\* np.dot(np.diag(1 / (row_sum + (row_sum == 0))), transitions)
RowNormalize(transitions) ==
    Bind(Array1([i \in DOMAIN transitions |-> VSum(transitions[i])]), LAMBDA row_sum :
    Bind(DiagMat([i \in DOMAIN transitions |->
                    RDiv(One, RAdd(row_sum[i], B2F(row_sum[i] = Zero)))]), LAMBDA scale :
    MatMul(scale, transitions)))

\* fault: the absorbing states are read off p, not off the repaired p_temp
Markov_astates_of_p(class_ids, classes, fill_empty_classes) ==
    Bind(IF classes = None THEN np_unique(class_ids) ELSE classes, LAMBDA classIds :
    Bind(CountLoop(class_ids, classIds,
                   Array2([i \in DOMAIN classIds |-> [j \in DOMAIN classIds |-> Zero]]), 0),
         LAMBDA transitions :
    Bind(RowNormalize(transitions), LAMBDA p0 :
    Bind(IF fill_empty_classes THEN fill_empty_diagonals(p0) ELSE p0, LAMBDA p :
    Bind(IF ZeroRows(p) # {} THEN fill_empty_diagonals(p) ELSE p, LAMBDA p_temp :
    LET k == Len0(classIds)
        transient == communication_classes(p_temp) \ recurrent_classes(p_temp)
        astates == {i \in Range(k) : p[i][i] = One}
    IN [type |-> "Markov",
        classes |-> classIds,
        k |-> k,
        transitions |-> transitions,
        p |-> p,
        num_cclasses |-> num_communication_classes(p_temp),
        num_rclasses |-> num_recurrent_classes(p_temp),
        cclasses_indices |-> communication_classes_indices(p_temp),
        rclasses_indices |-> recurrent_classes_indices(p_temp),
        num_tclasses |-> Cardinality(transient),
        tclasses_indices |-> IF transient # {} THEN ClassList(transient) ELSE None,
        astates_indices |-> SortedIdx(astates),
        num_astates |-> Cardinality(astates)])))))

\* the attributes of a Markov object after __init__
Markov(class_ids, classes, fill_empty_classes) ==
    Bind(IF classes = None THEN np_unique(class_ids) ELSE classes, LAMBDA classIds :
    Bind(CountLoop(class_ids, classIds,
                   Array2([i \in DOMAIN classIds |-> [j \in DOMAIN classIds |-> Zero]]), 0),
         LAMBDA transitions :
    Bind(RowNormalize(transitions), LAMBDA p0 :
    Bind(IF fill_empty_classes THEN fill_empty_diagonals(p0) ELSE p0, LAMBDA p :
    Bind(IF ZeroRows(p) # {} THEN fill_empty_diagonals(p) ELSE p, LAMBDA p_temp :
    LET k == Len0(classIds)
        transient == communication_classes(p_temp) \ recurrent_classes(p_temp)
        astates == {i \in Range(k) : p_temp[i][i] = One}
    IN [type |-> "Markov",
        classes |-> classIds,
        k |-> k,
        transitions |-> transitions,
        p |-> p,
        num_cclasses |-> num_communication_classes(p_temp),
        num_rclasses |-> num_recurrent_classes(p_temp),
        cclasses_indices |-> communication_classes_indices(p_temp),
        rclasses_indices |-> recurrent_classes_indices(p_temp),
        num_tclasses |-> Cardinality(transient),
        tclasses_indices |-> IF transient # {} THEN ClassList(transient) ELSE None,
        astates_indices |-> SortedIdx(astates),
        num_astates |-> Cardinality(astates)])))))

(***************************************************************************)
(* giddy/markov.py: Spatial_Markov.  The panel y takes whole values and is *)
(* classified by user cutoffs (mapclassify.UserDefined); the weights w     *)
(* give every unit one neighbour, so the spatial lag of a unit is its      *)
(* neighbour's value (libpysal.weights.lag_spatial).                       *)
(***************************************************************************)
\* mc.UserDefined(y, cutoffs + [inf]).yb: the first bin whose upper bound is >= y
UserDefined(y, bins) ==
    Array2([u \in DOMAIN y |-> [t \in DOMAIN y[u] |->
        Cardinality({c \in DOMAIN bins : bins[c] < y[u][t]})]])

\* _maybe_classify with cutoffs given: the classes, the cutoffs, and their number
\* counted with the closing bin [.., inf)
_maybe_classify(y, k, cutoffs) ==
    Bind(UserDefined(y, cutoffs), LAMBDA yb :
    [yb |-> yb, cutoffs |-> cutoffs, k |-> Len0(cutoffs) + 1])

\* weights.lag_spatial(w, y), w[u] the one neighbour of unit u
lag_spatial(w, y) == Array2([u \in DOMAIN y |-> [t \in DOMAIN y[u] |-> y[w[u]][t]]])

\* fault: the cell is indexed by the lag class of the later period t2
RECURSIVE SpatialCountLoop_later(_, _, _, _)
SpatialCountLoop_later(class_ids, lclass_ids, T, q) ==
    LET n == Len0(class_ids)
        t == Len0(class_ids[0])
        t1 == q \div n
        i == q % n
    IN IF q >= (t - 1) * n THEN T
       ELSE Bind([T EXCEPT ![lclass_ids[i][t1 + 1]][class_ids[i][t1]][class_ids[i][t1 + 1]] = RAdd(@, One)],
                 LAMBDA counted : SpatialCountLoop_later(class_ids, lclass_ids, counted, q + 1))

\* "for t1 in range(t - 1): for i in range(n): T[...] += 1", taken one (t1, i)
\* at a time; q numbers the passes
RECURSIVE SpatialCountLoop(_, _, _, _)
SpatialCountLoop(class_ids, lclass_ids, T, q) ==
    LET n == Len0(class_ids)
        t == Len0(class_ids[0])
        t1 == q \div n
        i == q % n
    IN IF q >= (t - 1) * n THEN T
       ELSE Bind([T EXCEPT ![lclass_ids[i][t1]][class_ids[i][t1]][class_ids[i][t1 + 1]] = RAdd(@, One)],
                 LAMBDA counted : SpatialCountLoop(class_ids, lclass_ids, counted, q + 1))

\* one pass of "for i, mat in enumerate(T)": the matrix P[i] of the counts mat
SpatialNormalize(mat) ==
    Bind(Array1([a \in DOMAIN mat |-> VSum(mat[a])]), LAMBDA row_sum0 :
    Bind(Array1([a \in DOMAIN mat |-> RAdd(row_sum0[a], B2F(row_sum0[a] = Zero))]), LAMBDA row_sum :
    Bind(DiagMat([a \in DOMAIN mat |-> RDiv(One, row_sum[a])]), LAMBDA scale :
    MatMul(scale, mat))))

\* _calc on an object obj (continuous y): sets lclass_ids, lag_cutoffs, m and
\* lclasses on the object and returns T and P
Spatial_calc(obj, y, w, fill_empty_classes) ==
    Bind(lag_spatial(w, y), LAMBDA ly :
    Bind(_maybe_classify(ly, obj.m, obj.lag_cutoffs), LAMBDA cl :
    Bind(SpatialCountLoop(obj.class_ids, cl.yb,
            Array3([l \in Range(cl.k) |-> [a \in Range(obj.k) |-> [b \in Range(obj.k) |-> Zero]]]), 0),
         LAMBDA T :
    Bind(Array1([l \in Range(cl.k) |-> SpatialNormalize(T[l])]), LAMBDA P0 :
    [self |-> [obj EXCEPT !.lclass_ids = cl.yb, !.lag_cutoffs = cl.cutoffs, !.m = cl.k,
                          !.lclasses = Array1([l \in Range(cl.k) |-> l])],
     T |-> T,
     P |-> IF fill_empty_classes THEN fill_empty_diagonals(P0) ELSE P0]))))

\* the attributes of a Spatial_Markov object after __init__ (discrete = False,
\* cutoffs and lag_cutoffs given, permutations = 0)
Spatial_Markov(y, w, k, m, cutoffs, lag_cutoffs, fill_empty_classes) ==
    Bind(_maybe_classify(y, k, cutoffs), LAMBDA own :
    Bind(Markov(own.yb, None, fill_empty_classes), LAMBDA classic :
    Bind([type |-> "Spatial_Markov",
          fixed |-> TRUE,
          discrete |-> FALSE,
          cutoffs |-> own.cutoffs,
          m |-> m,
          lag_cutoffs |-> lag_cutoffs,
          class_ids |-> own.yb,
          k |-> own.k,
          classes |-> Array1([i \in Range(own.k) |-> i]),
          p |-> classic.p,
          transitions |-> classic.transitions,
          lclass_ids |-> None,
          lclasses |-> None,
          T |-> None,
          P |-> None], LAMBDA obj :
    Bind(Spatial_calc(obj, y, w, fill_empty_classes), LAMBDA calc :
    [calc.self EXCEPT !.T = calc.T, !.P = calc.P]))))

(***************************************************************************)
(* State.  An estimator object is the record of its attributes; a cached   *)
(* property is an attribute that exists only once it has been computed     *)
(* (hasattr).  args holds the arguments the object was built from.  P is   *)
(* the matrix handed to a solver called on its own; call and outcome are   *)
(* the last call made and what it returned or raised.                      *)
(***************************************************************************)
VARIABLES args, self, P, call, outcome

vars == <<args, self, P, call, outcome>>

NoCall == <<"none">>

hasattr(obj, name) == name \in DOMAIN obj

setattr(obj, name, v) == [a \in DOMAIN obj \cup {name} |-> IF a = name THEN v ELSE obj[a]]

(***************************************************************************)
(* Inputs.                                                                 *)
(***************************************************************************)
\* the (n, t) panels over a set of values
Panels(n, t, values) == [Range(n) -> [Range(t) -> values]]

\* the cutoffs 0, 1, .., k - 2 that put the whole values 0 .. k-1 (and above) in
\* k classes
Cutoffs(k) == Array1([c \in Range(k - 1) |-> c])

\* the weights: the one neighbour of unit u is the next unit
NextUnit(n) == Array1([u \in Range(n) |-> (u + 1) % n])

MarkovArgs ==
    [class_ids : Panels(NumUnits, NumPeriods, Range(NumLabels)),
     classes : {None, Array1([i \in Range(NumLabels) |-> i])},
     fill_empty_classes : BOOLEAN]

SpatialArgs ==
    [y : Panels(NumUnits, NumPeriods, Range(NumLabels)),
     w : {NextUnit(NumUnits)},
     k : {NumLabels},
     m : {NumLags, NumLabels},
     fill_empty_classes : BOOLEAN]

\* the count matrices of k states with up to n observed moves: a move is the
\* cell i * k + j it adds 1 to, and the moves are listed in ascending order
RECURSIVE SortedMoves(_, _)
SortedMoves(k, n) ==
    IF n = 0 THEN {<< >>}
    ELSE LET shorter == SortedMoves(k, n - 1)
         IN shorter \cup
            UNION {{Append(s, c) : c \in {x \in Range(k * k) : Len(s) = 0 \/ s[Len(s)] <= x}} :
                       s \in {x \in shorter : Len(x) = n - 1}}

CountsOf(k, s) ==
    Array2([i \in Range(k) |-> [j \in Range(k) |->
        Rat(Cardinality({u \in DOMAIN s : s[u] = i * k + j}), 1)]])

\* the matrices handed to the solvers: row-normalised count matrices of k
\* states and up to MaxMoves moves; a state without a move has a row full of 0s
InputMatrices(k) == {RowNormalize(CountsOf(k, s)) : s \in SortedMoves(k, MaxMoves)}

(***************************************************************************)
(* Specification of the estimator objects: an object is built, then its    *)
(* properties are read in any order, any number of times.                  *)
(***************************************************************************)
Init ==
    /\ \/ /\ args \in MarkovArgs
          /\ self = Markov(args.class_ids, args.classes, args.fill_empty_classes)
       \/ /\ args \in SpatialArgs
          /\ self = Bind(Cutoffs(args.k), LAMBDA cutoffs :
                    Bind(Cutoffs(args.m), LAMBDA lag_cutoffs :
                    Spatial_Markov(args.y, args.w, args.k, args.m, cutoffs, lag_cutoffs,
                                   args.fill_empty_classes)))
    /\ P = None
    /\ call = NoCall
    /\ outcome = Returned(None)

\* a cached property: computed the first time it is read and kept as attr
Property(name, attr, computed) ==
    LET got == IF hasattr(self, attr) THEN Returned(self[attr]) ELSE computed
    IN /\ call' = <<name>>
       /\ outcome' = got
       /\ self' = IF ~hasattr(self, attr) /\ got.raised = "none"
                  THEN setattr(self, attr, got.value) ELSE self
       /\ UNCHANGED <<args, P>>

Markov_fmpt ==
    /\ self.type = "Markov"
    /\ Property("fmpt", "_fmpt", fmpt(self.p, TRUE))

\* fault: the accessor hands p to the solver without asking for the repair
Markov_steady_state_nofill ==
    /\ self.type = "Markov"
    /\ Property("steady_state", "_steady_state", steady_state(self.p, FALSE))

Markov_steady_state ==
    /\ self.type = "Markov"
    /\ Property("steady_state", "_steady_state", steady_state(self.p, TRUE))

Markov_sojourn_time ==
    /\ self.type = "Markov"
    /\ Property("sojourn_time", "_st", sojourn_time(self.p))

\* giddy.util.fill_empty_diagonals called on the object's p (2-d) or P (3-d)
Call_fill_empty_diagonals ==
    /\ \E a \in {"p", "P"} :
          /\ hasattr(self, a)
          /\ call' = <<"fill_empty_diagonals", a>>
          /\ outcome' = Returned(fill_empty_diagonals(self[a]))
    /\ UNCHANGED <<args, self, P>>

Next ==
    \/ Markov_fmpt
    \/ Markov_steady_state
    \/ Markov_sojourn_time
    \/ Call_fill_empty_diagonals

Spec == Init /\ [][Next]_vars

(***************************************************************************)
(* Specification of the solvers called on their own: one call on one       *)
(* matrix.                                                                 *)
(***************************************************************************)
SolverInit ==
    /\ \E k \in 1 .. MaxK : P \in InputMatrices(k)
    /\ args = None
    /\ self = [type |-> "none"]
    /\ call = NoCall
    /\ outcome = Returned(None)

Call_steady_state ==
    /\ call = NoCall
    /\ \E f \in BOOLEAN :
          /\ call' = <<"steady_state", f>>
          /\ outcome' = steady_state(P, f)
    /\ UNCHANGED <<args, self, P>>

Call_mfpt ==
    /\ call = NoCall
    /\ \E f \in BOOLEAN :
          /\ call' = <<"mfpt", f>>
          /\ outcome' = mfpt(P, f)
    /\ UNCHANGED <<args, self, P>>

\* _mfpt_ergodic takes an ergodic matrix: one communication class, no empty row
Call_mfpt_ergodic ==
    /\ call = NoCall
    /\ ZeroRows(P) = {}
    /\ num_communication_classes(P) = 1
    /\ call' = <<"_mfpt_ergodic">>
    /\ outcome' = _mfpt_ergodic(P)
    /\ UNCHANGED <<args, self, P>>

Call_sojourn_time ==
    /\ call = NoCall
    /\ call' = <<"sojourn_time">>
    /\ outcome' = sojourn_time(P)
    /\ UNCHANGED <<args, self, P>>

SolverNext ==
    \/ Call_steady_state
    \/ Call_mfpt
    \/ Call_mfpt_ergodic
    \/ Call_sojourn_time

SolverSpec == SolverInit /\ [][SolverNext]_vars

(***************************************************************************)
(* Properties of the estimator objects (Spec).                             *)
(***************************************************************************)
\* the (unit, period pair) occurrences of a panel that start in label a and end
\* in label b
Occurrences(ids, a, b) ==
    {ut \in (DOMAIN ids) \X Range(Len0(ids[0]) - 1) :
        ids[ut[1]][ut[2]] = a /\ ids[ut[1]][ut[2] + 1] = b}

\* the sum of all the entries of a 2-d array
Total(A) == VSum([i \in DOMAIN A |-> VSum(A[i])])

\* C1: Markov.transitions[i][j] is the number of (unit, consecutive period
\* pair) occurrences that start in class i and end in class j, pooled over the
\* t - 1 period pairs, and the entries sum to n * (t - 1).
TransitionsCountOccurrences ==
    self.type = "Markov" =>
        /\ DOMAIN self.transitions = Range(self.k)
        /\ \A i, j \in Range(self.k) :
              self.transitions[i][j] =
                  <<Cardinality(Occurrences(args.class_ids, self.classes[i], self.classes[j])), 1>>
        /\ Total(self.transitions) =
              <<Len0(args.class_ids) * (Len0(args.class_ids[0]) - 1), 1>>

\* a cell that two units reach in two different period pairs, next to a unit
\* that stays where it is
TransitionsPooled ==
    /\ self.type = "Markov"
    /\ \E a, b \in Range(self.k) :
          /\ a # b
          /\ self.transitions[a][b] = <<2, 1>>
          /\ \E x, y \in Occurrences(args.class_ids, self.classes[a], self.classes[b]) :
                x[1] # y[1] /\ x[2] # y[2]
    /\ \E a \in Range(self.k) : self.transitions[a][a] = <<1, 1>>

\* a row of a transition probability matrix next to the row of counts it was
\* estimated from
RowIsProbabilityOrEmpty(counts, row, filled) ==
    LET observed == \E j \in DOMAIN counts : counts[j] # Zero
        empty == \A j \in DOMAIN row : row[j] = Zero
    IN /\ \A j \in DOMAIN row : IsFinite(row[j]) /\ row[j][1] >= 0
       /\ VSum(row) = One \/ empty
       /\ observed => VSum(row) = One
       /\ ~observed /\ ~filled => empty
       /\ filled => VSum(row) = One

\* C2: every row of Markov.p and of each Spatial_Markov.P[l] has non-negative
\* entries and sums to 1 when its origin state was observed, is all 0 when it
\* never was, and sums to 1 in every case under fill_empty_classes = True.
RowsAreProbabilitiesOrEmpty ==
    /\ \A i \in DOMAIN self.p :
          RowIsProbabilityOrEmpty(self.transitions[i], self.p[i], args.fill_empty_classes)
    /\ self.type = "Spatial_Markov" =>
          \A l \in DOMAIN self.P : \A i \in DOMAIN self.P[l] :
              RowIsProbabilityOrEmpty(self.T[l][i], self.P[l][i], args.fill_empty_classes)

\* a conditional matrix left with an empty row next to a row of two halves
EmptyRowBesideSplitRow ==
    /\ self.type = "Spatial_Markov"
    /\ ~args.fill_empty_classes
    /\ \E l \in DOMAIN self.P : \E i, j \in DOMAIN self.P[l] :
          /\ \A c \in DOMAIN self.P[l][i] : self.P[l][i][c] = Zero
          /\ \E c \in DOMAIN self.P[l][j] : self.P[l][j][c] = <<1, 2>>

\* C9 as stated: when a Markov object is built without repair and p has a row
\* full of 0s, steady_state, the mean first passage accessor and sojourn_time
\* all reject the matrix with an error.
AccessorsRejectEmptyRows ==
    (/\ self.type = "Markov"
     /\ ~args.fill_empty_classes
     /\ ZeroRows(self.p) # {}
     /\ call[1] \in {"steady_state", "fmpt", "sojourn_time"})
    => outcome.raised # "none"

\* C9 as the code has it: on such an object no accessor raises the ValueError
\* of the rows full of 0s; each computes on the repaired copy of p (its outcome
\* is the solver's on fill_empty_diagonals(p)) and p keeps its empty rows.
AccessorsComputeOnRepairedCopy ==
    LET empty == {i \in DOMAIN self.transitions :
                     \A c \in DOMAIN self.transitions : self.transitions[i][c] = Zero}
        repaired == [i \in DOMAIN self.p |-> [j \in DOMAIN self.p |->
                        IF i = j /\ i \in empty THEN One ELSE self.p[i][j]]]
    IN (self.type = "Markov" /\ ~args.fill_empty_classes /\ empty # {}) =>
          /\ call[1] \in {"steady_state", "fmpt", "sojourn_time"} =>
                outcome.raised # "ValueError"
          /\ call[1] = "steady_state" => outcome = steady_state(repaired, FALSE)
          /\ call[1] = "fmpt" => outcome = mfpt(repaired, FALSE)
          /\ call[1] = "sojourn_time" => outcome = sojourn_time(repaired)
          /\ \A i \in empty : \A c \in DOMAIN self.p : self.p[i][c] = Zero

\* steady_state read on an unrepaired object with an empty row: a distribution
\* comes back and p still has the empty row
SteadyStateOfUnrepaired ==
    /\ self.type = "Markov"
    /\ ~args.fill_empty_classes
    /\ ZeroRows(self.p) # {}
    /\ call[1] = "steady_state"
    /\ outcome.raised = "none"
    /\ hasattr(self, "_steady_state")

\* C10: fill_empty_diagonals on a 2-d (k, k) or 3-d (m, k, k) array returns
\* the array with 1 on the diagonal of every row full of 0s ([l, i, i] for row
\* i of matrix l) and every other entry as it was.
FillSetsOnlyEmptyDiagonals ==
    call[1] = "fill_empty_diagonals" =>
        LET Filled(A, R) ==
                /\ DOMAIN R = DOMAIN A
                /\ \A i \in DOMAIN A :
                      /\ DOMAIN R[i] = DOMAIN A[i]
                      /\ \A j \in DOMAIN A[i] :
                            R[i][j] = IF i = j /\ (\A c \in DOMAIN A[i] : A[i][c] = Zero)
                                      THEN One ELSE A[i][j]
        IN IF call[2] = "p" THEN Filled(self.p, outcome.value)
           ELSE /\ DOMAIN outcome.value = DOMAIN self.P
                /\ \A l \in DOMAIN self.P : Filled(self.P[l], outcome.value[l])

\* a 3-d call where the second matrix has an empty row that the first has not
FillOfSecondMatrix ==
    /\ call = <<"fill_empty_diagonals", "P">>
    /\ \E i \in DOMAIN self.P[1] :
          /\ \A c \in DOMAIN self.P[1][i] : self.P[1][i][c] = Zero
          /\ \E c \in DOMAIN self.P[0][i] : self.P[0][i][c] # Zero
          /\ outcome.value[1][i][i] = One
          /\ outcome.value[0][i] = self.P[0][i]

(***************************************************************************)
(* Properties of the solvers (SolverSpec).  The classes of a chain are     *)
(* stated here from the matrix alone: a set of states is closed when no    *)
(* entry leads out of it, and a recurrent class is a closed set that       *)
(* contains no smaller one.                                                *)
(***************************************************************************)
Stochastic(A) == \A i \in DOMAIN A : VSum(A[i]) = One

Closed(A, S) == S # {} /\ \A i \in S : \A j \in DOMAIN A : A[i][j] # Zero => j \in S

RecurrentSets(A) ==
    {S \in SUBSET (DOMAIN A) : Closed(A, S) /\ \A R \in SUBSET S : Closed(A, R) => R = S}

\* one communication class: every non-empty closed set is the whole chain
Irreducible(A) == \A S \in SUBSET (DOMAIN A) : Closed(A, S) => S = DOMAIN A

\* P with 1 on the diagonal of its empty rows
RepairedP ==
    [i \in DOMAIN P |-> [j \in DOMAIN P |->
        IF i = j /\ (\A c \in DOMAIN P : P[i][c] = Zero) THEN One ELSE P[i][j]]]

\* v P for a row vector v
VecMat(v, A) == [j \in DOMAIN A |-> VSum([i \in DOMAIN A |-> RMul(v[i], A[i][j])])]

ProbabilityVector(v) ==
    /\ \A i \in DOMAIN v : IsFinite(v[i]) /\ v[i][1] >= 0
    /\ VSum(v) = One

\* what steady_state returned, as the list of its distributions
Distributions == IF Ndim(outcome.value) = 1 THEN <<outcome.value>> ELSE outcome.value

\* C3: for a stochastic P, every distribution steady_state(P) returns is a
\* probability vector, is 0 outside one recurrent class, is a fixed point of
\* P, and there is exactly one distribution for each recurrent class.
SteadyStatePerRecurrentClass ==
    (call[1] = "steady_state" /\ Stochastic(P)) =>
        /\ outcome.raised = "none"
        /\ \A d \in DOMAIN Distributions :
              LET v == Distributions[d]
              IN /\ DOMAIN v = DOMAIN P
                 /\ ProbabilityVector(v)
                 /\ \E S \in RecurrentSets(P) : \A i \in DOMAIN P : i \notin S => v[i] = Zero
                 /\ \A j \in DOMAIN P : VecMat(v, P)[j] = v[j]
        /\ \A S \in RecurrentSets(P) :
              Cardinality({d \in DOMAIN Distributions :
                  \A i \in DOMAIN P : i \notin S => Distributions[d][i] = Zero}) = 1
        /\ Cardinality(DOMAIN Distributions) = Cardinality(RecurrentSets(P))

\* two recurrent classes, one of them of two states, and a
\* transient state
TwoDistributionsAndTransient ==
    /\ call[1] = "steady_state"
    /\ Stochastic(P)
    /\ outcome.raised = "none"
    /\ Cardinality(RecurrentSets(P)) = 2
    /\ \E i \in DOMAIN P : \A S \in RecurrentSets(P) : i \notin S
    /\ \E d \in DOMAIN Distributions : \E i \in DOMAIN P : Distributions[d][i] = <<1, 2>>

\* C4 as stated: with exactly one recurrent class, transient classes or not,
\* steady_state is one vector of dimension (k,); only with r > 1 recurrent
\* classes is it an (r, k) array.
SteadyStateShapeByRecurrentClasses ==
    (call[1] = "steady_state" /\ outcome.raised = "none") =>
        LET r == Cardinality(RecurrentSets(RepairedP))
        IN IF r = 1
           THEN Ndim(outcome.value) = 1 /\ Len0(outcome.value) = Len0(P)
           ELSE /\ Ndim(outcome.value) = 2
                /\ Len0(outcome.value) = r
                /\ \A d \in DOMAIN outcome.value : Len0(outcome.value[d]) = Len0(P)

\* C5: for an irreducible stochastic P with stationary distribution pi, the
\* matrix M of mfpt(P) and of _mfpt_ergodic(P) has M[i, i] = 1 / pi[i]: the
\* inverses of its diagonal are the probability vector that P leaves fixed.
MfptDiagonalIsInverseOfStationary ==
    (call[1] \in {"mfpt", "_mfpt_ergodic"} /\ Stochastic(P) /\ Irreducible(P)) =>
        /\ outcome.raised = "none"
        /\ LET M == outcome.value
               pi == [i \in DOMAIN P |-> RDiv(One, M[i][i])]
           IN /\ \A i \in DOMAIN P : IsFinite(M[i][i]) /\ M[i][i][1] > 0
              /\ ProbabilityVector(pi)
              /\ \A j \in DOMAIN P : VecMat(pi, P)[j] = pi[j]
              /\ \A i \in DOMAIN P : RMul(M[i][i], steady_state(P, FALSE).value[i]) = One

\* _mfpt_ergodic on three states with unequal stationary shares
ErgodicOfThreeUnequal ==
    /\ call[1] = "_mfpt_ergodic"
    /\ Len0(P) = 3
    /\ outcome.raised = "none"
    /\ outcome.value[0][0] # outcome.value[1][1]

\* C6 as stated: for a stochastic P with several recurrent classes, mfpt gives
\* for two states of one recurrent class the finite value of the irreducible
\* method on the class's submatrix, and +inf for two states of different
\* recurrent classes.
MfptWithinAndAcrossRecurrentClasses ==
    (call[1] = "mfpt" /\ Stochastic(P) /\ Cardinality(RecurrentSets(P)) > 1) =>
        /\ outcome.raised = "none"
        /\ \A S \in RecurrentSets(P) : \A i, j \in S :
              LET idx == SortedIdx(S)
                  At(x) == CHOOSE q \in DOMAIN idx : idx[q] = x
                  within == _mfpt_ergodic(SubMatrix(P, idx)).value
              IN /\ IsFinite(outcome.value[i][j])
                 /\ outcome.value[i][j] = within[At(i)][At(j)]
        /\ \A S, R \in RecurrentSets(P) : S # R =>
              \A i \in S, j \in R : outcome.value[i][j] = Inf

\* C7: sojourn_time(p)[i] is 1 / (1 - p[i, i]) where p[i, i] < 1 and +inf
\* where p[i, i] = 1; a state whose row is all 0 counts as absorbing and gets
\* +inf.
SojournTimeFormula ==
    call[1] = "sojourn_time" =>
        /\ outcome.raised = "none"
        /\ DOMAIN outcome.value = DOMAIN P
        /\ \A i \in DOMAIN P :
              IF (\A c \in DOMAIN P : P[i][c] = Zero) \/ P[i][i] = One
              THEN outcome.value[i] = Inf
              ELSE /\ IsFinite(outcome.value[i])
                   /\ RMul(outcome.value[i], RSub(One, P[i][i])) = One

\* an empty row, an absorbing state and a state that stays half of the time
SojournOfEmptyAbsorbingAndHalf ==
    /\ call[1] = "sojourn_time"
    /\ \E i \in DOMAIN P : \A c \in DOMAIN P : P[i][c] = Zero
    /\ \E i \in DOMAIN P : P[i][i] = One
    /\ \E i \in DOMAIN P : P[i][i] = <<1, 2>> /\ outcome.value[i] = <<2, 1>>

\* C8 as stated: on a matrix with r >= 1 rows full of 0s, steady_state and mfpt
\* with fill_empty_classes = False raise the ValueError that reports r and
\* return nothing; with fill_empty_classes = True the matrix is repaired and
\* no error is raised.
EmptyRowsRejectedOrRepaired ==
    (call[1] \in {"steady_state", "mfpt"} /\ ~Stochastic(P)) =>
        LET r == Cardinality({i \in DOMAIN P : \A c \in DOMAIN P : P[i][c] = Zero})
        IN IF call[2]
           THEN outcome.raised = "none"
           ELSE outcome = [raised |-> "ValueError", rows0 |-> r]

(***************************************************************************)
(* Further properties of the estimator objects (Spec).                     *)
(***************************************************************************)
\* the matrix fill_empty_diagonals was called on
FillArgument == self[call[2]]

\* a row full of 0s somewhere in a 2-d or 3-d array
HasEmptyRow(A) ==
    IF call[2] = "p" THEN \E i \in DOMAIN A : \A c \in DOMAIN A[i] : A[i][c] = Zero
    ELSE \E l \in DOMAIN A : \E i \in DOMAIN A[l] : \A c \in DOMAIN A[l][i] : A[l][i][c] = Zero

\* C11: row repair is idempotent: fill_empty_diagonals returns a matrix without
\* rows full of 0s as it is, and repairing a repaired matrix changes nothing.
FillIsIdempotent ==
    call[1] = "fill_empty_diagonals" =>
        /\ ~HasEmptyRow(FillArgument) => outcome.value = FillArgument
        /\ ~HasEmptyRow(outcome.value)
        /\ fill_empty_diagonals(outcome.value) = outcome.value

\* a repair that changed p, repaired once more
RepairedTwice ==
    /\ call = <<"fill_empty_diagonals", "p">>
    /\ HasEmptyRow(self.p)
    /\ outcome.value # self.p
    /\ fill_empty_diagonals(outcome.value) = outcome.value
    /\ \E i \in DOMAIN self.p : self.p[i][i] = Zero /\ outcome.value[i][i] = Zero

\* the members of an array of index sets
Members(classes_indices) == UNION {classes_indices[c] : c \in DOMAIN classes_indices}

\* C12: for every Markov object the communicating classes partition the states
\* 0..k-1, every class is either recurrent or transient (num_cclasses =
\* num_rclasses + num_tclasses), and the absorbing states reported are exactly
\* the states that make a recurrent class of one state.
ClassesPartitionStates ==
    self.type = "Markov" =>
        LET cc == self.cclasses_indices
            rc == self.rclasses_indices
            tc == self.tclasses_indices
            Listed(L) == {L[c] : c \in DOMAIN L}
        IN /\ Members(cc) = Range(self.k)
           /\ \A c \in DOMAIN cc : cc[c] # {}
           /\ \A c, d \in DOMAIN cc : c # d => cc[c] \cap cc[d] = {}
           /\ self.num_cclasses = Len0(cc)
           /\ self.num_rclasses = Len0(rc)
           /\ self.num_tclasses = Len0(tc)
           /\ Cardinality(Listed(cc)) = Len0(cc)
           /\ Cardinality(Listed(rc)) = Len0(rc)
           /\ Cardinality(Listed(tc)) = Len0(tc)
           /\ Listed(rc) \cup Listed(tc) = Listed(cc)
           /\ Listed(rc) \cap Listed(tc) = {}
           /\ self.num_cclasses = self.num_rclasses + self.num_tclasses
           /\ self.num_astates = Len0(self.astates_indices)
           /\ {self.astates_indices[a] : a \in DOMAIN self.astates_indices} =
                 {i \in Range(self.k) : {i} \in Listed(rc)}

\* an object built without repair whose never observed state is its one
\* absorbing state, next to a transient class
EmptyRowIsAbsorbing ==
    /\ self.type = "Markov"
    /\ ~args.fill_empty_classes
    /\ self.num_tclasses >= 1
    /\ self.num_astates = 1
    /\ \A c \in DOMAIN self.p : self.p[self.astates_indices[0]][c] = Zero

\* the (unit, period pair) occurrences of a Spatial_Markov object with lag class
\* l at the earlier period, own class a at the earlier and b at the later period
LagOccurrences(obj, l, a, b) ==
    {ut \in (DOMAIN obj.class_ids) \X Range(Len0(obj.class_ids[0]) - 1) :
        /\ obj.lclass_ids[ut[1]][ut[2]] = l
        /\ obj.class_ids[ut[1]][ut[2]] = a
        /\ obj.class_ids[ut[1]][ut[2] + 1] = b}

\* C13: T[l][a][b] of a Spatial_Markov object is the number of (unit, period
\* pair (t, t+1)) occurrences with lag class l at t, own class a at t and own
\* class b at t+1; the lag class at t+1 plays no part.  The lag class of a
\* unit is the class of its neighbour's value among the m lag classes.
ConditionalCountsByEarlierLag ==
    self.type = "Spatial_Markov" =>
        /\ DOMAIN self.T = Range(self.m)
        /\ \A u \in DOMAIN args.y : \A t \in DOMAIN args.y[u] :
              LET v == args.y[args.w[u]][t]
              IN self.lclass_ids[u][t] = IF v < self.m - 1 THEN v ELSE self.m - 1
        /\ \A l \in Range(self.m) : \A a, b \in Range(self.k) :
              self.T[l][a][b] = <<Cardinality(LagOccurrences(self, l, a, b)), 1>>

\* two occurrences in one cell, one of them from a unit whose lag class changes
\* with the period
CellWithChangingLag ==
    /\ self.type = "Spatial_Markov"
    /\ \E l \in Range(self.m) : \E a, b \in Range(self.k) :
          /\ self.T[l][a][b] = <<2, 1>>
          /\ \E ut \in LagOccurrences(self, l, a, b) :
                self.lclass_ids[ut[1]][ut[2] + 1] # l


(***************************************************************************)
(* The homogeneity test of regime transition matrices (markov.py).         *)
(***************************************************************************)
\* the largest number of regimes of a homogeneity test of the model
MaxRegimes == 3
\* the number of classes of the regime matrices of the model
HomK == 2
\* the largest count in a cell of a regime matrix of the model
MaxCount == 1

\* x > 0 for a float
RPos(x) == x[1] > 0 /\ x # NaN

\* x ** n for a float x and a natural number n
RECURSIVE RPow(_, _)
RPow(x, n) == IF n = 0 THEN One ELSE RMul(x, RPow(x, n - 1))

\* int(x): truncation towards zero
Trunc(x) == SignInt(x[1]) * (AbsInt(x[1]) \div x[2])

\* c * np.log(x), kept as a term of its two arguments
Log(c, x) == <<"log", c, x>>

\* c * lr.sum() for an array lr of logarithm terms, kept as a term
LogSum(c, lr) == <<"sum", c, lr>>

\* 1 - stats.chi2.cdf(x, dof): the upper tail of the chi-square distribution,
\* kept as a term of its two arguments
chi2_sf(x, dof) == <<"1 - chi2.cdf", x, dof>>

\* the degrees of freedom without the empty rows: a row no regime observed
\* contributes nothing
Dof_observed_rows(b_i, A_i) ==
    Trunc(VSum([i \in DOMAIN A_i |->
        IF b_i[i] = Zero THEN Zero
        ELSE RMul(RSub(b_i[i], One), Rat(A_i[i] - 1, 1))]))

\* int(((b_i - 1) * (A_i - 1)).sum())
Dof(b_i, A_i) ==
    Trunc(VSum([i \in DOMAIN A_i |-> RMul(RSub(b_i[i], One), Rat(A_i[i] - 1, 1))]))

\* Homogeneity_Results._homogeneity: the object after the test of the regime
\* matrices M (m arrays of shape (r, k))
_homogeneity(transition_matrices) ==
    LET M    == transition_matrices
        m    == Len0(M)
        r    == Len0(M[0])
        k    == Len0(M[0][0])
        Safe(n) == RAdd(n, B2F(n = Zero))
    IN
    Bind(Array2([i \in Range(r) |-> [j \in Range(k) |->
             VSum([g \in Range(m) |-> M[g][i][j]])]]), LAMBDA T :
    Bind(Array1([i \in Range(r) |-> VSum(T[i])]), LAMBDA n_i :
    Bind(Array1([i \in Range(r) |-> Cardinality({j \in Range(k) : RPos(T[i][j])})]),
         LAMBDA A_i :
    Bind(Array2([i \in Range(r) |-> [j \in Range(k) |->
             RMul(RDiv(One, Safe(n_i[i])), T[i][j])]]), LAMBDA p_ij :
    Bind(Array2([g \in Range(m) |-> [i \in Range(r) |-> VSum(M[g][i])]]), LAMBDA nim :
    Bind(Array3([g \in Range(m) |-> [i \in Range(r) |-> [j \in Range(k) |->
             RMul(RDiv(One, Safe(nim[g][i])), M[g][i][j])]]]), LAMBDA p_ijm :
    Bind(Array3([g \in Range(m) |-> [i \in Range(r) |-> [j \in Range(k) |->
             RMul(nim[g][i],
                  RDiv(RPow(RSub(p_ijm[g][i][j], p_ij[i][j]), 2),
                       Safe(p_ij[i][j])))]]]), LAMBDA q_table :
    Bind(Array3([g \in Range(m) |-> [i \in Range(r) |-> [j \in Range(k) |->
             LET mask == RPos(M[g][i][j]) /\ RPos(p_ij[i][j])
                 ratio == IF mask THEN RDiv(p_ijm[g][i][j], p_ij[i][j]) ELSE One
             IN Log(M[g][i][j], ratio)]]]), LAMBDA lr :
    Bind(Array1([i \in Range(r) |->
             VSum([g \in Range(m) |-> B2F(RPos(nim[g][i]))])]), LAMBDA b_i :
    Bind(Dof(b_i, A_i), LAMBDA dof :
    Bind(VSum([g \in Range(m) |-> Total(q_table[g])]), LAMBDA Q :
    Bind(LogSum(Rat(2, 1), lr), LAMBDA LR :
      [type       |-> "Homogeneity_Results",
       k          |-> k,
       t_total    |-> Total(T),
       dof        |-> dof,
       Q          |-> Q,
       Q_p_value  |-> chi2_sf(Q, dof),
       LR         |-> LR,
       LR_p_value |-> chi2_sf(LR, dof),
       A          |-> A_i,
       A_im       |-> Array2([i \in Range(r) |-> [g \in Range(m) |->
                         Rat(Cardinality({j \in Range(k) : RPos(M[g][i][j])}), 1)]]),
       B          |-> Array2([i \in Range(r) |-> [g \in Range(m) |->
                         B2F(RPos(nim[g][i]))]]),
       b_i        |-> b_i,
       LR_table   |-> Array3([g \in Range(m) |-> [i \in Range(r) |-> [j \in Range(k) |->
                         Log(RMul(Rat(2, 1), lr[g][i][j][2]), lr[g][i][j][3])]]]),
       Q_table    |-> q_table,
       m          |-> m,
       p_h0       |-> p_ij,
       p_h1       |-> p_ijm]))))))))))))

\* homogeneity(transition_matrices): an instance of Homogeneity_Results
homogeneity(transition_matrices) == _homogeneity(transition_matrices)

\* the arrays of shape (k, k) with whole counts of at most c in every cell
CountMatrices(k, c) ==
    {Array2(A) : A \in [Range(k) -> [Range(k) -> {Rat(n, 1) : n \in 0 .. c}]]}

\* the lists of m regime count matrices
RegimeMatrices(m, k, c) == {Array1(M) : M \in [Range(m) -> CountMatrices(k, c)]}

HomogeneityInit ==
    /\ \E m \in 1 .. MaxRegimes :
          \E M \in RegimeMatrices(m, HomK, MaxCount) :
             args = [transition_matrices |-> M]
    /\ self = [type |-> "none"]
    /\ P = None
    /\ call = NoCall
    /\ outcome = Returned(None)

Call_homogeneity ==
    /\ call = NoCall
    /\ call' = <<"homogeneity">>
    /\ self' = homogeneity(args.transition_matrices)
    /\ outcome' = Returned(None)
    /\ UNCHANGED <<args, P>>

HomogeneityNext == Call_homogeneity

HomogeneitySpec == HomogeneityInit /\ [][HomogeneityNext]_vars

\* the regime matrices of the test, and the pooled count of row i, column j
Regimes == args.transition_matrices

Pooled(i, j) == VSum([g \in DOMAIN Regimes |-> Regimes[g][i][j]])

\* the number of regimes with at least one observation starting in state i
RegimesObserving(i) ==
    Cardinality({g \in DOMAIN Regimes : \E j \in DOMAIN Regimes[g][i] :
                    RPos(Regimes[g][i][j])})

\* the number of non-zero cells in row i of the pooled count matrix
PooledNonZero(i) ==
    Cardinality({j \in DOMAIN Regimes[0][i] : RPos(Pooled(i, j))})

RECURSIVE SumInts(_, _)
SumInts(f, n) == IF n = 0 THEN 0 ELSE SumInts(f, n - 1) + f[n - 1]

\* C14: for every list of regime count matrices the test reports
\* dof = sum over the rows i of (b_i - 1) * (A_i - 1), b_i the number of regimes
\* observing state i and A_i the number of non-zero cells of row i of the pooled
\* matrix, and the p-values of Q and of LR are both taken at this dof.
DofSumsOverRows ==
    call = <<"homogeneity">> =>
        LET r == Len0(Regimes[0])
        IN /\ self.dof = SumInts([i \in Range(r) |->
                            (RegimesObserving(i) - 1) * (PooledNonZero(i) - 1)], r)
           /\ self.Q_p_value = chi2_sf(self.Q, self.dof)
           /\ self.LR_p_value = chi2_sf(self.LR, self.dof)

\* a test of three regimes where one row is observed by one regime only, the
\* other by all of them, with an empty cell in the pooled matrix
DofOfUnevenRows ==
    /\ call = <<"homogeneity">>
    /\ Len0(Regimes) = 3
    /\ RegimesObserving(0) = 1
    /\ RegimesObserving(1) = 3
    /\ PooledNonZero(0) = 1
    /\ PooledNonZero(1) = 2
    /\ self.dof = 2
    /\ self.Q # Zero


(***************************************************************************)
(* giddy/markov.py: Spatial_Markov with discrete = True.  Every unit has   *)
(* one neighbour, so the most common category among the neighbours of a    *)
(* unit (libpysal.weights.lag_categorical) is the category of that         *)
(* neighbour, and no tie arises.                                           *)
(***************************************************************************)
\* weights.lag_categorical(w, y, ties = "tryself"), w[u] the one neighbour of u
lag_categorical(w, y) == Array2([u \in DOMAIN y |-> [t \in DOMAIN y[u] |-> y[w[u]][t]]])

\* _calc on an object with discrete = True: the lag classes are those of
\* self.class_ids, and of y only the shape is read
Spatial_calc_discrete(obj, y, w, fill_empty_classes) ==
    Bind(lag_categorical(w, obj.class_ids), LAMBDA lclass_ids :
    Bind(SpatialCountLoop(Array2([u \in DOMAIN y |-> [t \in DOMAIN y[u] |->
                                     obj.class_ids[u][t]]]), lclass_ids,
            Array3([l \in Range(obj.m) |-> [a \in Range(obj.k) |-> [b \in Range(obj.k) |-> Zero]]]), 0),
         LAMBDA T :
    Bind(Array1([l \in Range(obj.m) |-> SpatialNormalize(T[l])]), LAMBDA P0 :
    [self |-> [obj EXCEPT !.lclass_ids = lclass_ids],
     T |-> T,
     P |-> IF fill_empty_classes THEN fill_empty_diagonals(P0) ELSE P0])))

\* Spatial_Markov._calc: "if self.discrete: .. else: .."
Spatial_Markov_calc(obj, y, w, fill_empty_classes) ==
    IF obj.discrete THEN Spatial_calc_discrete(obj, y, w, fill_empty_classes)
    ELSE Spatial_calc(obj, y, w, fill_empty_classes)

\* the attributes of a Spatial_Markov object after __init__ (discrete = True,
\* permutations = 0)
Spatial_Markov_discrete(y, w, fill_empty_classes) ==
    Bind(np_unique(y), LAMBDA classes :
    Bind(Array2([u \in DOMAIN y |-> [t \in DOMAIN y[u] |-> ClassIndex(classes, y[u][t])]]),
         LAMBDA class_ids :
    Bind(Markov(class_ids, None, fill_empty_classes), LAMBDA classic :
    Bind([type |-> "Spatial_Markov",
          fixed |-> TRUE,
          discrete |-> TRUE,
          cutoffs |-> None,
          m |-> Len0(classes),
          lag_cutoffs |-> None,
          classes |-> classes,
          k |-> Len0(classes),
          class_ids |-> class_ids,
          lclass_ids |-> class_ids,
          p |-> classic.p,
          transitions |-> classic.transitions,
          T |-> None,
          P |-> None], LAMBDA obj :
    Bind(Spatial_calc_discrete(obj, y, w, fill_empty_classes), LAMBDA calc :
    [calc.self EXCEPT !.T = calc.T, !.P = calc.P])))))


(***************************************************************************)
(* Spatial_Markov built with permutations (markov.py): the random          *)
(* permutations np.random.permutation draws are an input, one per trial.   *)
(***************************************************************************)
\* the largest number of permutation trials of the model
MaxPerms == 2

\* x >= y for floats (False when either is nan)
RGeq(x, y) == x # NaN /\ y # NaN /\ x[1] * y[2] >= y[1] * x[2]

\* a Python tuple of three elements
Tuple3(a, b, c) == (0 :> a) @@ (1 :> b) @@ (2 :> c)

IndexError == [raised |-> "IndexError"]

\* np.dot of arrays whose shapes are not aligned
ShapeError(a, b) == [raised |-> "ValueError", shapes |-> <<a, b>>]

\* a list comprehension over the outcomes outs[0], outs[1], ..: the list of the
\* values, or the first exception raised
ListComprehension(outs) ==
    LET bad == {i \in DOMAIN outs : outs[i].raised # "none"}
    IN IF bad # {} THEN outs[CHOOSE i \in bad : \A j \in bad : i <= j]
       ELSE Returned(Array1([i \in DOMAIN outs |-> outs[i].value]))

\* chi2(T1, T2): (statistic, p-value, degrees of freedom) of the counts T1
\* against the probabilities of the counts T2; np.diag(rs1).dot(p) needs T1
\* and T2 to have as many rows
chi2(T1, T2) ==
    IF Len0(T1) # Len0(T2) THEN ShapeError(Len0(T1), Len0(T2))
    ELSE
    Bind(Array1([i \in DOMAIN T2 |-> VSum(T2[i])]), LAMBDA rs2 :
    Bind(Array1([i \in DOMAIN T1 |-> VSum(T1[i])]), LAMBDA rs1 :
    Bind((Cardinality({i \in DOMAIN rs1 : RPos(rs1[i])}) - 1)
             * (Cardinality({i \in DOMAIN rs2 : RPos(rs2[i])}) - 1), LAMBDA dof :
    Bind(MatMul(DiagMat([i \in DOMAIN rs2 |->
                   RDiv(One, RAdd(rs2[i], B2F(rs2[i] = Zero)))]), T2), LAMBDA p :
    Bind(MatMul(DiagMat(rs1), p), LAMBDA E :
    Bind(Total(Array2([i \in DOMAIN T1 |-> [j \in DOMAIN T1[i] |->
             RDiv(RPow(RSub(T1[i][j], E[i][j]), 2),
                  RAdd(E[i][j], B2F(E[i][j] = Zero)))]])), LAMBDA stat :
    Returned(Tuple3(stat, chi2_sf(stat, dof), dof))))))))

\* Spatial_Markov._chi2_test: chi2 of every conditional count matrix
_chi2_test(obj) ==
    ListComprehension(Array1([i \in Range(Len0(obj.T)) |->
                                 chi2(obj.T[i], obj.transitions)]))

\* a read of the cached property chi2: what it returns or raises, and the
\* object after it
Get_chi2(obj) ==
    IF hasattr(obj, "_chi2") THEN [out |-> Returned(obj._chi2), self |-> obj]
    ELSE Bind(_chi2_test(obj), LAMBDA got :
         [out |-> got,
          self |-> IF got.raised = "none" THEN setattr(obj, "_chi2", got.value) ELSE obj])

\* a read of the cached property x2
Get_x2(obj) ==
    IF hasattr(obj, "_x2") THEN [out |-> Returned(obj._x2), self |-> obj]
    ELSE Bind(Get_chi2(obj), LAMBDA c :
         IF c.out.raised # "none" THEN c
         ELSE Bind(VSum([i \in DOMAIN c.out.value |-> c.out.value[i][0]]), LAMBDA x2 :
              [out |-> Returned(x2), self |-> setattr(c.self, "_x2", x2)]))

\* np.random.permutation(y) for the drawn order pi: row u is row pi[u] of y
Permuted(y, pi) == Array2([u \in DOMAIN y |-> y[pi[u]]])

\* "x2 = [chi2(T[i], self.transitions)[0] for i in range(self.k)]; sum(x2)":
\* T[i] is an IndexError when T has no more than i matrices
TrialStatistic(T, obj) ==
    Bind(ListComprehension(Array1([i \in Range(obj.k) |->
             IF i >= Len0(T) THEN IndexError ELSE chi2(T[i], obj.transitions)])),
         LAMBDA x2 :
    IF x2.raised # "none" THEN x2
    ELSE Returned(VSum([i \in DOMAIN x2.value |-> x2.value[i][0]])))

\* "for perm in range(permutations)" from pass perm on: st holds the object,
\* counter and x2_realizations; nrp[perm] is the order drawn in pass perm
RECURSIVE PermutationLoop(_, _, _, _, _, _)
PermutationLoop(st, y, w, permutations, nrp, perm) ==
    IF perm >= permutations THEN Returned(st)
    ELSE Bind(Spatial_Markov_calc(st.self, Permuted(y, nrp[perm]), w, FALSE), LAMBDA calc :
         Bind(TrialStatistic(calc.T, calc.self), LAMBDA x2s :
         IF x2s.raised # "none" THEN x2s
         ELSE Bind(Get_x2(calc.self), LAMBDA observed :
              IF observed.out.raised # "none" THEN observed.out
              ELSE PermutationLoop(
                  [self |-> observed.self,
                   counter |-> IF RGeq(x2s.value, observed.out.value)
                               THEN st.counter + 1 ELSE st.counter,
                   x2_realizations |->
                       Array2([st.x2_realizations EXCEPT
                                  ![perm] = [c \in DOMAIN @ |-> x2s.value]])],
                  y, w, permutations, nrp, perm + 1))))

\* fault: the share of the trials at or above the observed statistic, the
\* observed one not counted in
x2_rpvalue_unshifted(counter, permutations) ==
    RDiv(Rat(counter, 1), Rat(permutations, 1))

\* "(counter + 1.0) / (permutations + 1.0)"
x2_rpvalue(counter, permutations) ==
    RDiv(Rat(counter + 1, 1), Rat(permutations + 1, 1))

\* Spatial_Markov.__init__ with permutations: the object, or what it raised
Spatial_Markov_init(y, w, k, m, cutoffs, lag_cutoffs, fill_empty_classes, permutations, nrp) ==
    Bind(Spatial_Markov(y, w, k, m, cutoffs, lag_cutoffs, fill_empty_classes), LAMBDA obj :
    IF permutations = 0 THEN Returned(obj)
    ELSE Bind(PermutationLoop(
                  [self |-> obj, counter |-> 0,
                   x2_realizations |-> Array2([t \in Range(permutations) |->
                                                  [c \in Range(1) |-> Zero]])],
                  y, w, permutations, nrp, 0), LAMBDA loop :
         IF loop.raised # "none" THEN loop
         ELSE Returned(
                  setattr(setattr(loop.value.self, "x2_rpvalue",
                                  x2_rpvalue(loop.value.counter, permutations)),
                          "x2_realizations", loop.value.x2_realizations))))

\* the orders of n units
Orders(n) == {Array1(pi) : pi \in {f \in [Range(n) -> Range(n)] :
                                       \A a, b \in Range(n) : a # b => f[a] # f[b]}}

\* the numbers (k, m) of own and lag classes: equal, fewer lag classes, fewer
\* own classes
ClassCounts == {<<NumLabels, NumLabels>>, <<NumLabels, NumLags>>, <<NumLags, NumLabels>>}

PermutedArgs ==
    UNION {[y : Panels(NumUnits, NumPeriods, Range(NumLabels)),
            w : {NextUnit(NumUnits)},
            k : {km[1]},
            m : {km[2]},
            fill_empty_classes : {FALSE},
            permutations : {N},
            nrp : {Array1(s) : s \in [Range(N) -> Orders(NumUnits)]}] :
               N \in 1 .. MaxPerms, km \in ClassCounts}

PermutedInit ==
    /\ args \in PermutedArgs
    /\ self = [type |-> "none"]
    /\ P = None
    /\ call = NoCall
    /\ outcome = Returned(None)

\* Spatial_Markov(y, w, k, m, permutations, cutoffs, lag_cutoffs): the object
\* exists once __init__ has returned
New_Spatial_Markov ==
    /\ call = NoCall
    /\ self.type = "none"
    /\ call' = <<"Spatial_Markov">>
    /\ \E built \in {Bind(Cutoffs(args.k), LAMBDA cutoffs :
                     Bind(Cutoffs(args.m), LAMBDA lag_cutoffs :
                     Spatial_Markov_init(args.y, args.w, args.k, args.m, cutoffs,
                                         lag_cutoffs, args.fill_empty_classes,
                                         args.permutations, args.nrp)))} :
          /\ outcome' = IF built.raised = "none" THEN Returned(None) ELSE built
          /\ self' = IF built.raised = "none" THEN built.value ELSE self
    /\ UNCHANGED <<args, P>>

\* a read of a cached property of the Spatial_Markov object
SpatialProperty(name, got) ==
    /\ self.type = "Spatial_Markov"
    /\ call' = <<name>>
    /\ self' = got.self
    /\ outcome' = got.out
    /\ UNCHANGED <<args, P>>

Spatial_chi2 == SpatialProperty("chi2", Get_chi2(self))

Spatial_x2 == SpatialProperty("x2", Get_x2(self))

PermutedNext ==
    \/ New_Spatial_Markov
    \/ Spatial_chi2
    \/ Spatial_x2

PermutedSpec == PermutedInit /\ [][PermutedNext]_vars


\* (1 + the number of trials whose statistic is >= observed) / (1 + N)
PseudoPValue(realizations, observed) ==
    RDiv(Rat(1 + Cardinality({t \in DOMAIN realizations :
                                 RGeq(realizations[t][0], observed)}), 1),
         Rat(1 + Len0(realizations), 1))

\* C15: a Spatial_Markov built with permutations = N > 0 has
\* x2_rpvalue = (1 + number of trials whose statistic is >= the observed x2) / (1 + N),
\* which is in (0, 1] and does not increase when the observed statistic is
\* replaced by a larger one over the same realized statistics.
PermutationPValueFormula ==
    self.type = "Spatial_Markov" /\ args.permutations > 0 =>
        /\ Len0(self.x2_realizations) = args.permutations
        /\ self.x2_rpvalue = PseudoPValue(self.x2_realizations, self._x2)
        /\ RPos(self.x2_rpvalue) /\ RGeq(One, self.x2_rpvalue)
        /\ \A t \in DOMAIN self.x2_realizations :
              LET larger == self.x2_realizations[t][0]
              IN RGeq(larger, self._x2) =>
                    RGeq(self.x2_rpvalue, PseudoPValue(self.x2_realizations, larger))

\* an object built with two trials, one of them at or above the observed
\* statistic and one below it
OneTrialOfTwoAtOrAbove ==
    /\ self.type = "Spatial_Markov"
    /\ call = <<"Spatial_Markov">>
    /\ args.permutations = 2
    /\ self.x2_rpvalue = <<2, 3>>
    /\ RGeq(self.x2_realizations[0][0], self._x2)
    /\ ~RGeq(self.x2_realizations[1][0], self._x2)


(***************************************************************************)
(* giddy/markov.py: LISA_Markov.  The quadrants q and the pseudo p-values  *)
(* p_z_sim come from esda.Moran_Local and are inputs here, so the null     *)
(* model that __init__ derives from y itself (chi_2, expected_t) is left   *)
(* out.  A unit's id is its index.  giddy.components.Graph gives the       *)
(* connected components of the edges added to it.                          *)
(***************************************************************************)
\* the number of units of the panels handed to spillover
NumSites == 4
\* the number of periods of the panels handed to spillover
LisaPeriods == 3

\* "for i in range(1, 5): for j in range(1, 5): TT[i, j] = c; c += 1" from pass
\* n on; pass n is i = n // 4 + 1, j = n % 4 + 1
RECURSIVE TTLoop(_, _, _)
TTLoop(table, c, n) ==
    IF n >= 16 THEN table
    ELSE TTLoop([table EXCEPT ![(n \div 4) + 1][(n % 4) + 1] = c], c + 1, n + 1)

\* TT: the move type of a transition from quadrant i to quadrant j
TT == TTLoop(Array2([i \in Range(5) |-> [j \in Range(5) |-> 0]]), 1, 0)

\* fault: the significance keys listed with the destination varying slowest
sig_keys_by_destination == Array1([s \in Range(4) |-> <<s % 2 = 0, s \div 2 = 0>>])

\* "[(i, j) for i in cases for j in cases]" with cases = (True, False)
sig_keys == Array1([s \in Range(4) |-> <<s \div 2 = 0, s % 2 = 0>>])

\* "for i in range(1, 5): for j in range(1, 5): MOVE_TYPES[key] = c; c += 1"
\* for one significance key, from pass n on
RECURSIVE MoveTypesOfKey(_, _, _, _)
MoveTypesOfKey(table, sig_key, c, n) ==
    IF n >= 16 THEN table
    ELSE LET key == <<(n \div 4) + 1, (n % 4) + 1, sig_key[1], sig_key[2]>>
         IN MoveTypesOfKey((key :> c) @@ table, sig_key, c + 1, n + 1)

\* "for i, sig_key in enumerate(sig_keys): c = 1 + i * 16", from key number
\* s on
RECURSIVE MoveTypesLoop(_, _)
MoveTypesLoop(table, s) ==
    IF s >= Len0(sig_keys) THEN table
    ELSE Bind(MoveTypesOfKey(table, sig_keys[s], 1 + s * 16, 0), LAMBDA filled :
         MoveTypesLoop(filled, s + 1))

\* MOVE_TYPES: the move type of a transition by quadrants and significance
MOVE_TYPES == MoveTypesLoop(<< >>, 0)

\* p <= significance_level
RLeq(x, y) == RGeq(y, x)

\* "for t in range(k): for r in range(n): move_types[r, t] = TT[..]"
MoveTypesOf(q) ==
    Array2([r \in DOMAIN q |-> [t \in Range(Len0(q[0]) - 1) |-> TT[q[r][t]][q[r][t + 1]]]])

\* "sm[r, t] = MOVE_TYPES[key]"; the 0.0 of a pb without permutations is the
\* key False
SignificantMovesOf(q, pb) ==
    Array2([r \in DOMAIN q |-> [t \in Range(Len0(q[0]) - 1) |->
        MOVE_TYPES[<<q[r][t], q[r][t + 1], pb[r][t], pb[r][t + 1]>>]]])

\* the attributes of a LISA_Markov object after __init__
LISA_Markov(q, p_z_sim, w, permutations, significance_level) ==
    Bind(Markov(q, Array1([i \in Range(4) |-> i + 1]), FALSE), LAMBDA markov :
    Bind(Array2([r \in DOMAIN q |-> [t \in DOMAIN q[r] |->
             IF permutations > 0 THEN RLeq(p_z_sim[r][t], significance_level)
             ELSE FALSE]]), LAMBDA pb :
    Bind([a \in {"q", "w", "significance_level", "move_types", "permutations"} |->
             CASE a = "q" -> q
               [] a = "w" -> w
               [] a = "significance_level" -> significance_level
               [] a = "move_types" -> MoveTypesOf(q)
               [] a = "permutations" -> permutations], LAMBDA own :
    Bind([a \in IF permutations > 0 THEN {"p_values", "significant_moves"} ELSE {} |->
             IF a = "p_values" THEN p_z_sim ELSE SignificantMovesOf(q, pb)], LAMBDA sig :
    [a \in DOMAIN markov \cup DOMAIN own \cup DOMAIN sig |->
        IF a = "type" THEN "LISA_Markov"
        ELSE IF a \in DOMAIN sig THEN sig[a]
        ELSE IF a \in DOMAIN own THEN own[a]
        ELSE markov[a]]))))

\* Graph.add_edge for every core location i of s: an edge to each neighbor,
\* and with neighbors_on an edge from each neighbor to each of its neighbors
GraphEdges(s, neighbors, neighbors_on) ==
    UNION {{<<i, neighbor>> : neighbor \in neighbors[i]} : i \in s}
    \cup (IF neighbors_on
          THEN UNION {{<<neighbor, nn>> : nn \in neighbors[neighbor]} :
                         neighbor \in UNION {neighbors[i] : i \in s}}
          ELSE {})

\* the nodes joined to the nodes S by the undirected edges
RECURSIVE Connected(_, _)
Connected(edges, S) ==
    LET nxt == S \cup {e[2] : e \in {d \in edges : d[1] \in S}}
                 \cup {e[1] : e \in {d \in edges : d[2] \in S}}
    IN IF nxt = S THEN S ELSE Connected(edges, nxt)

\* Graph.connected_components: the node sets of the connected components of
\* the edges, listed by smallest node
connected_components(edges) ==
    ClassList({Connected(edges, {e[1]}) : e \in edges})

\* fault: every location new to the components of the later period is flagged
SpillIds_every_new(components1, components2) ==
    LET c1 == UNION {components1[c] : c \in DOMAIN components1}
        c2 == UNION {components2[c] : c \in DOMAIN components2}
    IN c2 \ c1

\* spill_ids: the new members of a period-2 component that has a member that
\* was in a period-1 component
SpillIds(components1, components2) ==
    LET c1 == UNION {components1[c] : c \in DOMAIN components1}
        c2 == UNION {components2[c] : c \in DOMAIN components2}
        new_ids == c2 \ c1
        Cj(j) == components2[CHOOSE c \in DOMAIN components2 :
                     /\ j \in components2[c]
                     /\ \A d \in DOMAIN components2 : j \in components2[d] => c <= d]
    IN {j \in new_ids : \E i \in Cj(j) : i \in c1}

\* "for t in range(k - 1)" of spillover from pass t on
RECURSIVE SpilloverLoop(_, _, _, _, _, _)
SpilloverLoop(sig_ids, neighbors, neighbors_on, t, spill_over, components) ==
    IF t >= Len0(sig_ids) - 1
    THEN [components |-> components, spill_over |-> spill_over]
    ELSE Bind(connected_components(GraphEdges(sig_ids[t], neighbors, neighbors_on)),
              LAMBDA components1 :
         Bind(connected_components(GraphEdges(sig_ids[t + 1], neighbors, neighbors_on)),
              LAMBDA components2 :
         Bind(SpillIds(components1, components2), LAMBDA spill_ids :
         SpilloverLoop(sig_ids, neighbors, neighbors_on, t + 1,
             Array2([i \in DOMAIN spill_over |-> [u \in DOMAIN spill_over[i] |->
                 IF u = t /\ i \in spill_ids THEN One ELSE spill_over[i][u]]]),
             Array2([i \in DOMAIN components |-> [u \in DOMAIN components[i] |->
                 IF u = t /\ \E c \in DOMAIN components1 : i \in components1[c]
                 THEN Rat(1 + CHOOSE c \in DOMAIN components1 :
                              /\ i \in components1[c]
                              /\ \A d \in DOMAIN components1 :
                                    i \in components1[d] => d <= c, 1)
                 ELSE components[i][u]]])))))

\* LISA_Markov.spillover: the dictionary of results, or None without
\* permutations
spillover(obj, quadrant, neighbors_on) ==
    LET n == Len0(obj.q)
        k == Len0(obj.q[0])
    IN IF obj.permutations = 0 THEN None
       ELSE Bind(Array1([t \in Range(k) |->
                    {i \in Range(n) : /\ obj.q[i][t] = quadrant
                                      /\ RLeq(obj.p_values[i][t], obj.significance_level)}]),
                 LAMBDA sig_ids :
            SpilloverLoop(sig_ids, obj.w, neighbors_on, 0,
                Array2([i \in Range(n) |-> [t \in Range(k - 1) |-> Zero]]),
                Array2([i \in Range(n) |-> [t \in Range(k) |-> Zero]])))

\* the weights of n units in a row: the neighbors of a unit are the units
\* next to it
RowNeighbors(n) == Array1([u \in Range(n) |-> {v \in Range(n) : v = u - 1 \/ v = u + 1}])

\* a p-value below and one above the significance level 0.05
PLow == Rat(1, 100)

PHigh == Rat(1, 2)

\* one unit over two periods in any quadrants, with and without permutations;
\* NumSites units in a row over LisaPeriods periods in the quadrants 1 and 2,
\* all significant or all but the last unit
LisaArgs ==
    [q : Panels(1, 2, 1 .. 4), p_z_sim : Panels(1, 2, {PLow, PHigh}),
     w : {RowNeighbors(1)}, permutations : {1}, significance_level : {Rat(1, 20)}]
    \cup
    [q : Panels(1, 2, 1 .. 4), p_z_sim : {None},
     w : {RowNeighbors(1)}, permutations : {0}, significance_level : {Rat(1, 20)}]
    \cup
    [q : Panels(NumSites, LisaPeriods, 1 .. 2),
     p_z_sim : {[u \in Range(NumSites) |-> [t \in Range(LisaPeriods) |->
                    IF u \in dull THEN PHigh ELSE PLow]] : dull \in {{}, {NumSites - 1}}},
     w : {RowNeighbors(NumSites)}, permutations : {1}, significance_level : {Rat(1, 20)}]

LisaInit ==
    /\ args \in LisaArgs
    /\ self = [type |-> "none"]
    /\ P = None
    /\ call = NoCall
    /\ outcome = Returned(None)

New_LISA_Markov ==
    /\ call = NoCall
    /\ self.type = "none"
    /\ call' = <<"LISA_Markov">>
    /\ self' = LISA_Markov(Array2(args.q), Array2(args.p_z_sim), args.w,
                           args.permutations, args.significance_level)
    /\ outcome' = Returned(None)
    /\ UNCHANGED <<args, P>>

Call_spillover ==
    /\ self.type = "LISA_Markov"
    /\ \E quadrant \in 1 .. 2, neighbors_on \in BOOLEAN :
          /\ call' = <<"spillover", quadrant, neighbors_on>>
          /\ outcome' = Returned(spillover(self, quadrant, neighbors_on))
    /\ UNCHANGED <<args, self, P>>

LisaNext ==
    \/ New_LISA_Markov
    \/ Call_spillover

LisaSpec == LisaInit /\ [][LisaNext]_vars


(***************************************************************************)
(* Properties of the LISA transitions and of spillover (LisaSpec).         *)
(***************************************************************************)
\* the offset step s of a pair (origin significant, destination significant)
SignificanceStep(sig_o, sig_d) ==
    IF sig_o THEN (IF sig_d THEN 0 ELSE 1) ELSE (IF sig_d THEN 2 ELSE 3)

\* whether the LISA of unit r in period t is significant
Significant(r, t) == RLeq(args.p_z_sim[r][t], args.significance_level)

\* C16: the base move type of a transition from quadrant o to quadrant d is
\* 4 * (o - 1) + d in 1..16, the refined code is base + 16 * s in 1..64 with
\* s = 0, 1, 2, 3 for (origin significant, destination significant) = (yes, yes),
\* (yes, no), (no, yes), (no, no), the refined code is a bijection from the 64
\* combinations onto 1..64, and these are the codes of the object's moves.
MoveTypesEncodeQuadrantsAndSignificance ==
    /\ \A o, d \in 1 .. 4 :
          /\ TT[o][d] = 4 * (o - 1) + d
          /\ TT[o][d] \in 1 .. 16
          /\ \A sig_o, sig_d \in BOOLEAN :
                /\ MOVE_TYPES[<<o, d, sig_o, sig_d>>]
                      = TT[o][d] + 16 * SignificanceStep(sig_o, sig_d)
                /\ MOVE_TYPES[<<o, d, sig_o, sig_d>>] \in 1 .. 64
    /\ DOMAIN MOVE_TYPES = (1 .. 4) \X (1 .. 4) \X BOOLEAN \X BOOLEAN
    /\ {MOVE_TYPES[key] : key \in DOMAIN MOVE_TYPES} = 1 .. 64
    /\ Cardinality(DOMAIN MOVE_TYPES) = 64
    /\ self.type = "LISA_Markov" =>
          \A r \in DOMAIN args.q : \A t \in Range(Len0(args.q[r]) - 1) :
             LET base == 4 * (args.q[r][t] - 1) + args.q[r][t + 1]
             IN /\ self.move_types[r][t] = base
                /\ args.permutations > 0 =>
                      self.significant_moves[r][t]
                          = base + 16 * SignificanceStep(Significant(r, t),
                                                         Significant(r, t + 1))

\* a move from quadrant 2 to quadrant 3 whose origin is not significant and
\* whose destination is: base 7, refined 39
MoveOfInsignificantOrigin ==
    /\ self.type = "LISA_Markov"
    /\ args.permutations > 0
    /\ args.q[0][0] = 2 /\ args.q[0][1] = 3
    /\ ~Significant(0, 0) /\ Significant(0, 1)
    /\ self.move_types[0][0] = 7
    /\ self.significant_moves[0][0] = 39

\* the components of every period for the quadrant and neighbors_on of the
\* call, as an array over the periods
PeriodComponents ==
    Array1([t \in DOMAIN self.q[0] |->
        connected_components(
            GraphEdges({i \in DOMAIN self.q : self.q[i][t] = call[2] /\ Significant(i, t)},
                       self.w, call[3]))])

\* the units in some component of a list of components
Clustered(components) == UNION {components[c] : c \in DOMAIN components}

\* a call of spillover that returned its dictionary
SpilloverReturned == call[1] = "spillover" /\ outcome.value # None

\* C17: for every consecutive period pair (t, t + 1), spill_over[j, t] = 1 if
\* and only if j is in some component of period t + 1, in no component of
\* period t, and its period-(t + 1) component has a unit that was in some
\* component of period t.
SpilloverFlagsJoinersOfEarlierClusters ==
    SpilloverReturned =>
        Bind(PeriodComponents, LAMBDA of :
        \A j \in DOMAIN self.q : \A t \in Range(Len0(self.q[j]) - 1) :
           /\ outcome.value.spill_over[j][t] \in {Zero, One}
           /\ outcome.value.spill_over[j][t] = One <=>
                 /\ j \in Clustered(of[t + 1])
                 /\ j \notin Clustered(of[t])
                 /\ \E c \in DOMAIN of[t + 1] :
                       /\ j \in of[t + 1][c]
                       /\ of[t + 1][c] \cap Clustered(of[t]) # {})

\* a result where a unit joined an earlier cluster over one period pair and a
\* unit is new to a cluster with no earlier member over another
JoinerAndNewCluster ==
    /\ SpilloverReturned
    /\ Len0(self.q) = NumSites
    /\ \E t, u \in Range(LisaPeriods - 1) : \E j, i \in Range(NumSites) :
          /\ outcome.value.spill_over[j][t] = One
          /\ outcome.value.spill_over[i][u] = Zero
          /\ i \in Clustered(PeriodComponents[u + 1]) \ Clustered(PeriodComponents[u])

\* C18: the components array has one column per period and, for every period
\* t, the last one included, components[i, t] is the id (from 1) of the
\* cluster of unit i in period t, and 0 only if i was in no cluster then.
ComponentsGivenForEveryPeriod ==
    SpilloverReturned =>
        Bind(PeriodComponents, LAMBDA of :
        \A i \in DOMAIN self.q :
           /\ DOMAIN outcome.value.components[i] = DOMAIN self.q[i]
           /\ \A t \in DOMAIN self.q[i] :
                 IF i \in Clustered(of[t])
                 THEN \E c \in DOMAIN of[t] :
                         /\ i \in of[t][c]
                         /\ outcome.value.components[i][t] = Rat(c + 1, 1)
                 ELSE outcome.value.components[i][t] = Zero)


(***************************************************************************)
(* Further properties of the solvers (SolverSpec).                         *)
(***************************************************************************)
\* C19: for every stochastic P (after the repair of its empty rows) mfpt
\* returns a k x k matrix and surfaces no singular-system error: a singular
\* first-passage system of a destination is recovered by leaving out the
\* unreachable states and solving on the remaining ones.
MfptNeverSurfacesSingularSystem ==
    (call[1] = "mfpt" /\ (call[2] \/ Stochastic(P))) =>
        /\ outcome.raised = "none"
        /\ DOMAIN outcome.value = DOMAIN P
        /\ \A i \in DOMAIN P : DOMAIN outcome.value[i] = DOMAIN P


(***************************************************************************)
(* giddy/directional.py: Rose.  Y holds whole values; only its first and   *)
(* its last column are read.  The weights w give every unit one neighbour. *)
(* The rose has k = 4 sectors, whose cuts are kept in units of pi; an      *)
(* angle and a square root are kept as terms, and the sector of an angle   *)
(* is computed from the signs of dx and dy.                                *)
(***************************************************************************)
RoseUnits == 2

RoseTrials == 2

POS8 == Array1([i \in Range(8) |-> <<1, 1, 0, 0, 1, 1, 0, 0>>[i + 1]])

POS4 == Array1([i \in Range(4) |-> <<1, 0, 1, 0>>[i + 1]])

NEG8 == Array1([i \in Range(8) |-> 1 - POS8[i]])

NEG4 == Array1([i \in Range(4) |-> 1 - POS4[i]])

\* np.arctan2(dy, dx) and np.sqrt(x)
arctan2(dy, dx) == <<"arctan2", dy, dx>>

sqrt(x) == <<"sqrt", x>>

\* utheta and its bin in np.histogram(utheta, self.cuts) for the cuts 0, pi/2,
\* pi, 3 pi/2, 2 pi: a negative angle is moved up by 2 pi, and a bin holds its
\* left edge
histogram_bin(dy, dx) ==
    IF dy = 0 THEN (IF dx >= 0 THEN 0 ELSE 2)
    ELSE IF dy > 0 THEN (IF dx > 0 THEN 0 ELSE 1)
    ELSE (IF dx < 0 THEN 2 ELSE 3)

\* Rose._calc: the results and the object, whose wY, Y, _dx and _dy it sets
_calc(obj, Y, w, k) ==
    Bind(lag_spatial(w, Y), LAMBDA wY :
    Bind(Len0(Y[0]) - 1, LAMBDA last :
    Bind(Array1([u \in DOMAIN Y |-> Y[u][last] - Y[u][0]]), LAMBDA dx :
    Bind(Array1([u \in DOMAIN Y |-> wY[u][last] - wY[u][0]]), LAMBDA dy :
    Bind(Array1([u \in DOMAIN Y |-> histogram_bin(dy[u], dx[u])]), LAMBDA bin :
    [results |->
        [counts |-> Array1([s \in Range(Len0(obj.cuts) - 1) |->
                        Cardinality({u \in DOMAIN Y : bin[u] = s})]),
         theta |-> Array1([u \in DOMAIN Y |-> arctan2(dy[u], dx[u])]),
         bins |-> obj.cuts,
         r |-> Array1([u \in DOMAIN Y |-> sqrt(dx[u] * dx[u] + dy[u] * dy[u])]),
         lag |-> wY],
     self |-> [wY |-> wY, Y |-> Y, _dx |-> dx, _dy |-> dy] @@ obj])))))

\* Rose.__init__
Rose(Y, w, k) ==
    Bind([type |-> "Rose", Y |-> Y, w |-> w, k |-> k, permtuations |-> 0,
          sw |-> Rat(2, k),
          cuts |-> Array1([i \in Range(k + 1) |-> Rat(2 * i, k)])], LAMBDA obj :
    Bind(_calc(obj, Y, w, k), LAMBDA observed :
    [theta |-> observed.results.theta,
     bins |-> observed.results.bins,
     counts |-> observed.results.counts,
     r |-> observed.results.r,
     lag |-> observed.results.lag] @@ observed.self))

\* the loop of Rose.permute from trial m on: shuffles[m] is idxs after the
\* shuffle of trial m
RECURSIVE PermuteLoop(_, _, _, _, _)
PermuteLoop(obj, rY, shuffles, counts, m) ==
    IF m = Len0(shuffles) THEN [self |-> obj, counts |-> counts]
    ELSE Bind(_calc(obj, Permuted(rY, shuffles[m]), obj.w, obj.k), LAMBDA res :
         Bind(Array1([i \in DOMAIN res.results.counts |->
                         Rat(res.results.counts[i], 1)]), LAMBDA row :
         PermuteLoop(res.self, rY, shuffles, Array2((m :> row) @@ counts), m + 1)))

\* str.upper on the keywords drawn
upper(s) ==
    CASE s = "two.sided" -> "TWO.SIDED"
      [] s = "Positive" -> "POSITIVE"
      [] s = "negative" -> "NEGATIVE"
      [] s = "greater" -> "GREATER"
      [] OTHER -> s

\* print(msg): nothing is raised and nothing is returned
Printed(msg) == [raised |-> "none", value |-> None, printed |-> msg]

\* Rose.permute: the object after the call and what the call gave
permute(obj, permutations, alternative, shuffles) ==
    Bind(Array2([m \in Range(permutations) |-> [i \in Range(Len0(obj.counts)) |-> Zero]]),
         LAMBDA zeros :
    Bind(PermuteLoop(obj, obj.Y, shuffles, zeros, 0), LAMBDA done :
    Bind(done.counts, LAMBDA counts :
    Bind(Array1([i \in Range(obj.k) |->
            Cardinality({m \in DOMAIN counts :
                            RGeq(counts[m][i], Rat(obj.counts[i], 1))})]), LAMBDA larger_perm :
    Bind(Array1([i \in Range(obj.k) |->
            Cardinality({m \in DOMAIN counts :
                            RLeq(counts[m][i], Rat(obj.counts[i], 1))})]), LAMBDA smaller_perm :
    Bind(Array1([i \in DOMAIN counts[0] |->
            RDiv(SumUpTo([m \in DOMAIN counts |-> counts[m][i]], permutations),
                 Rat(permutations, 1))]), LAMBDA expected_perm :
    Bind(Array1([i \in DOMAIN counts[0] |->
            sqrt(RDiv(SumUpTo([m \in DOMAIN counts |->
                                  RMul(RSub(counts[m][i], expected_perm[i]),
                                       RSub(counts[m][i], expected_perm[i]))],
                              permutations),
                      Rat(permutations, 1)))]), LAMBDA std_perm :
    Bind([counts_perm |-> counts, larger_perm |-> larger_perm,
          smaller_perm |-> smaller_perm, expected_perm |-> expected_perm,
          std_perm |-> std_perm] @@ done.self, LAMBDA st :
    Bind(Array1([i \in Range(obj.k) |-> Rat(larger_perm[i] + 1, permutations + 1)]), LAMBDA L :
    Bind(Array1([i \in Range(obj.k) |-> Rat(smaller_perm[i] + 1, permutations + 1)]), LAMBDA S :
    Bind(upper(alternative), LAMBDA alt :
    IF alt = "TWO.SIDED"
    THEN [self |-> [p |-> Array1([i \in DOMAIN L |->
                              IF ~RGeq(L[i], Rat(1, 2))
                              THEN RMul(Rat(2, 1), L[i])
                              ELSE RMul(Rat(2, 1), RSub(One, L[i]))])] @@ st,
          out |-> Returned(None)]
    ELSE IF alt = "POSITIVE"
    THEN LET POS == IF obj.k = 4 THEN POS4 ELSE POS8
         IN [self |-> [p |-> Array1([i \in DOMAIN POS |->
                                  IF POS[i] = 1 THEN L[i] ELSE S[i]])] @@ st,
             out |-> Returned(None)]
    ELSE IF alt = "NEGATIVE"
    THEN LET NEG == IF obj.k = 4 THEN NEG4 ELSE NEG8
         IN [self |-> [p |-> Array1([i \in DOMAIN NEG |->
                                  IF NEG[i] = 1 THEN L[i] ELSE S[i]])] @@ st,
             out |-> Returned(None)]
    ELSE [self |-> st,
          out |-> Printed(<<"Bad option for alternative: %s.", alternative>>)])))))))))))

\* the keywords drawn for alternative
Alternatives == {"two.sided", "Positive", "negative", "greater"}

RoseArgs ==
    [Y : Panels(RoseUnits, 2, 0 .. 1), w : {NextUnit(RoseUnits)}, k : {4}]

RoseInit ==
    /\ args \in RoseArgs
    /\ self = [type |-> "none"]
    /\ P = None
    /\ call = NoCall
    /\ outcome = Returned(None)

New_Rose ==
    /\ call = NoCall
    /\ self.type = "none"
    /\ call' = <<"Rose">>
    /\ self' = Rose(Array2(args.Y), args.w, args.k)
    /\ outcome' = Returned(None)
    /\ UNCHANGED <<args, P>>

Call_permute ==
    /\ self.type = "Rose"
    /\ \E permutations \in 1 .. RoseTrials, alternative \in Alternatives :
       \E shuffles \in [Range(permutations) -> Orders(RoseUnits)] :
       \E res \in {permute(self, permutations, alternative, Array2(shuffles))} :
          /\ call' = <<"permute", permutations, alternative>>
          /\ self' = res.self
          /\ outcome' = res.out
    /\ UNCHANGED <<args, P>>

RoseNext ==
    \/ New_Rose
    \/ Call_permute

RoseSpec == RoseInit /\ [][RoseNext]_vars


(***************************************************************************)
(* Properties of Rose.permute (RoseSpec).                                  *)
(***************************************************************************)
\* the attributes a call of permute is said to keep
KeptAttributes ==
    {"Y", "wY", "counts_perm", "larger_perm", "smaller_perm", "expected_perm",
     "std_perm", "p"}

\* C20: a call of permute with an unrecognized alternative reports the bad
\* option, raises nothing, and every one of Y, wY, counts_perm, larger_perm,
\* smaller_perm, expected_perm, std_perm and p that the object had before the
\* call has the same value after it.
BadAlternativeLeavesRoseUntouched ==
    [][(call'[1] = "permute"
            /\ upper(call'[3]) \notin {"TWO.SIDED", "POSITIVE", "NEGATIVE"}) =>
          /\ outcome'.raised = "none"
          /\ "printed" \in DOMAIN outcome'
          /\ \A a \in KeptAttributes :
                a \in DOMAIN self => a \in DOMAIN self' /\ self'[a] = self[a]]_vars


(***************************************************************************)
(* giddy/markov.py: Spatial_Markov.__init__ on arguments that do not fit:  *)
(* a negative k or m beside user cutoffs, and weights for one unit more    *)
(* than y has.  The product w.sparse * y of lag_spatial raises scipy's     *)
(* ValueError when the sizes differ; what the constructor had assigned by  *)
(* then is kept with the error.                                            *)
(***************************************************************************)
\* scipy.sparse: the product of an (a, a) matrix and a (b, t) array, a # b
DimensionMismatch(assigned) ==
    [raised |-> "ValueError", message |-> "dimension mismatch", assigned |-> assigned]

\* Spatial_Markov.__init__ (discrete = False, cutoffs and lag_cutoffs given,
\* permutations = 0) on any arguments: the object, or what was raised
Spatial_Markov_new(y, w, k, m, cutoffs, lag_cutoffs, fill_empty_classes) ==
    IF Len0(w) = Len0(y)
    THEN Returned(Spatial_Markov(y, w, k, m, cutoffs, lag_cutoffs, fill_empty_classes))
    ELSE Bind(_maybe_classify(y, k, cutoffs), LAMBDA own :
         Bind(Markov(own.yb, None, fill_empty_classes), LAMBDA classic :
         DimensionMismatch([fixed |-> TRUE,
                            discrete |-> FALSE,
                            cutoffs |-> own.cutoffs,
                            m |-> m,
                            lag_cutoffs |-> lag_cutoffs,
                            class_ids |-> own.yb,
                            k |-> own.k,
                            classes |-> Array1([i \in Range(own.k) |-> i]),
                            p |-> classic.p,
                            transitions |-> classic.transitions])))

\* the arguments: k and m as they should be or negative, weights of the size
\* of y or of one unit more
AnyArgs ==
    [y : Panels(NumUnits, NumPeriods, Range(NumLabels)),
     w : {NextUnit(NumUnits), NextUnit(NumUnits + 1)},
     k : {NumLabels, -1},
     m : {NumLags, -1},
     fill_empty_classes : {FALSE}]

AnyInit ==
    /\ args \in AnyArgs
    /\ self = [type |-> "none"]
    /\ P = None
    /\ call = NoCall
    /\ outcome = Returned(None)

\* obj = Spatial_Markov(y, w, k, m, cutoffs = .., lag_cutoffs = ..): self is the
\* object the caller holds, if any
Any_Spatial_Markov ==
    /\ call = NoCall
    /\ call' = <<"Spatial_Markov">>
    /\ \E made \in {Spatial_Markov_new(args.y, args.w, args.k, args.m, Cutoffs(NumLabels),
                                       Cutoffs(NumLags), args.fill_empty_classes)} :
          /\ self' = IF made.raised = "none" THEN made.value ELSE self
          /\ outcome' = IF made.raised = "none" THEN Returned(None) ELSE made
    /\ UNCHANGED <<args, P>>

AnyNext == Any_Spatial_Markov

AnySpec == AnyInit /\ [][AnyNext]_vars


(***************************************************************************)
(* Properties of the constructor on arguments that do not fit (AnySpec).   *)
(***************************************************************************)
\* C21: a Spatial_Markov call with a negative k, a negative m, or weights
\* whose size differs from the number of units raises an error, it does so
\* before any attribute is assigned or any transition is counted, and the
\* caller holds no object.
InvalidInputsRejectedAtOnce ==
    (call[1] = "Spatial_Markov"
        /\ (args.k < 0 \/ args.m < 0 \/ Len0(args.w) # Len0(args.y))) =>
        /\ outcome.raised # "none"
        /\ DOMAIN outcome.assigned = {}
        /\ self.type = "none"


(***************************************************************************)
(* giddy/markov.py: the cached properties of Markov (fmpt, steady_state,   *)
(* sojourn_time) and of Spatial_Markov (ht, Q, Q_p_value, LR, LR_p_value,  *)
(* dof_hom) and Spatial_Markov.summary.  Beside what a call gave, the      *)
(* outcome lists the derived results that the call computed, that is, the  *)
(* solver and test calls it ran.  The properties s, S, f, F, shtest of     *)
(* Spatial_Markov are not part of this specification.                      *)
(***************************************************************************)
CacheLabels == 2

\* what a call gave, with the derived results it computed
Computing(out, computed) == setattr(out, "computed", computed)

\* "if not hasattr(self, attr): self.attr = <the call named result>; return
\* self.attr" of the Markov properties
MarkovCached(obj, attr, result, got) ==
    IF hasattr(obj, attr)
    THEN [out |-> Computing(Returned(obj[attr]), {}), self |-> obj]
    ELSE [out |-> Computing(got, {result}),
          self |-> IF got.raised = "none" THEN setattr(obj, attr, got.value) ELSE obj]

\* Spatial_Markov.ht
Get_ht(obj) ==
    IF hasattr(obj, "_ht")
    THEN [out |-> Computing(Returned(obj._ht), {}), self |-> obj]
    ELSE Bind(homogeneity(obj.T), LAMBDA ht :
         [out |-> Computing(Returned(ht), {"ht"}), self |-> setattr(obj, "_ht", ht)])

\* Spatial_Markov.Q
Get_Q(obj) ==
    IF hasattr(obj, "_Q")
    THEN [out |-> Computing(Returned(obj._Q), {}), self |-> obj]
    ELSE Bind(Get_ht(obj), LAMBDA h :
         [out |-> Computing(Returned(h.out.value.Q), h.out.computed),
          self |-> setattr(h.self, "_Q", h.out.value.Q)])

\* Spatial_Markov.Q_p_value, LR, LR_p_value and dof_hom: "self.attr =
\* self.ht.field; return self.attr"
Get_of_ht(obj, attr, field) ==
    Bind(Get_ht(obj), LAMBDA h :
    [out |-> Computing(Returned(h.out.value[field]), h.out.computed),
     self |-> setattr(h.self, attr, h.out.value[field])])

\* Spatial_Markov.summary: "ht = homogeneity(self.T, ..); ht.summary(..)"
Spatial_Markov_summary(obj) ==
    Bind(homogeneity(obj.T), LAMBDA ht :
    [out |-> Computing(Printed(<<"Spatial Markov Test", ht.Q, ht.LR, ht.dof>>), {"ht"}),
     self |-> obj])

CacheArgs ==
    [type : {"Markov"},
     class_ids : Panels(NumUnits, NumPeriods, Range(CacheLabels)),
     fill_empty_classes : BOOLEAN]
    \cup
    [type : {"Spatial_Markov"},
     y : Panels(NumUnits, NumPeriods, Range(CacheLabels)),
     w : {NextUnit(NumUnits)}]

CacheInit ==
    /\ args \in CacheArgs
    /\ self = IF args.type = "Markov"
              THEN Markov(args.class_ids, None, args.fill_empty_classes)
              ELSE Bind(Cutoffs(CacheLabels), LAMBDA cutoffs :
                   Spatial_Markov(args.y, args.w, CacheLabels, CacheLabels, cutoffs,
                                  cutoffs, FALSE))
    /\ P = None
    /\ call = NoCall
    /\ outcome = Returned(None)

\* a call on the object: what it gave and the object after it
Access(name, got) ==
    /\ call' = <<name>>
    /\ self' = got.self
    /\ outcome' = got.out
    /\ UNCHANGED <<args, P>>

Read_fmpt ==
    /\ self.type = "Markov"
    /\ Access("fmpt", MarkovCached(self, "_fmpt", "fmpt", fmpt(self.p, TRUE)))

Read_steady_state ==
    /\ self.type = "Markov"
    /\ Access("steady_state",
              MarkovCached(self, "_steady_state", "steady_state", steady_state(self.p, TRUE)))

Read_sojourn_time ==
    /\ self.type = "Markov"
    /\ Access("sojourn_time", MarkovCached(self, "_st", "sojourn_time", sojourn_time(self.p)))

Read_ht ==
    /\ self.type = "Spatial_Markov"
    /\ Access("ht", Get_ht(self))

Read_Q ==
    /\ self.type = "Spatial_Markov"
    /\ Access("Q", Get_Q(self))

Read_Q_p_value ==
    /\ self.type = "Spatial_Markov"
    /\ Access("Q_p_value", Get_of_ht(self, "_Q_p_value", "Q_p_value"))

Read_LR ==
    /\ self.type = "Spatial_Markov"
    /\ Access("LR", Get_of_ht(self, "_LR", "LR"))

Read_LR_p_value ==
    /\ self.type = "Spatial_Markov"
    /\ Access("LR_p_value", Get_of_ht(self, "_LR_p_value", "LR_p_value"))

Read_dof_hom ==
    /\ self.type = "Spatial_Markov"
    /\ Access("dof_hom", Get_of_ht(self, "_dof_hom", "dof"))

Call_summary ==
    /\ self.type = "Spatial_Markov"
    /\ Access("summary", Spatial_Markov_summary(self))

CacheNext ==
    \/ Read_fmpt
    \/ Read_steady_state
    \/ Read_sojourn_time
    \/ Read_ht
    \/ Read_Q
    \/ Read_Q_p_value
    \/ Read_LR
    \/ Read_LR_p_value
    \/ Read_dof_hom
    \/ Call_summary

CacheSpec == CacheInit /\ [][CacheNext]_vars


(***************************************************************************)
(* Properties of the cached results (CacheSpec).                           *)
(***************************************************************************)
\* the attribute in which a derived result is stored
StoredAs ==
    [fmpt |-> "_fmpt", steady_state |-> "_steady_state", sojourn_time |-> "_st",
     ht |-> "_ht"]

\* the attribute that a property returns
AttributeOf ==
    [fmpt |-> "_fmpt", steady_state |-> "_steady_state", sojourn_time |-> "_st",
     ht |-> "_ht", Q |-> "_Q", Q_p_value |-> "_Q_p_value", LR |-> "_LR",
     LR_p_value |-> "_LR_p_value", dof_hom |-> "_dof_hom"]

\* C22: no access and no summary call computes a derived result that the
\* object already stores; an access of a stored result returns the stored
\* value; and no call changes a stored result.
DerivedResultsComputedOnce ==
    [][/\ \A result \in outcome'.computed : ~hasattr(self, StoredAs[result])
       /\ (call'[1] \in DOMAIN AttributeOf /\ hasattr(self, AttributeOf[call'[1]])) =>
             outcome'.value = self[AttributeOf[call'[1]]]
       /\ \A a \in {AttributeOf[n] : n \in DOMAIN AttributeOf} :
             hasattr(self, a) => hasattr(self', a) /\ self'[a] = self[a]]_vars


(***************************************************************************)
(* Further properties of the permutation trials (PermutedSpec).            *)
(***************************************************************************)
\* the object built from the same arguments with permutations = 0
Unpermuted ==
    Bind(Cutoffs(args.k), LAMBDA cutoffs :
    Bind(Cutoffs(args.m), LAMBDA lag_cutoffs :
    Spatial_Markov(args.y, args.w, args.k, args.m, cutoffs, lag_cutoffs,
                   args.fill_empty_classes)))

\* C23: a Spatial_Markov object built with permutations > 0 has the
\* lclass_ids, lag_cutoffs, m, T and P of the object built from the same
\* arguments with permutations = 0, that is, those of the observed data.
TrialsLeaveObservedState ==
    (self.type = "Spatial_Markov" /\ args.permutations > 0) =>
        Bind(Unpermuted, LAMBDA observed :
        \A a \in {"lclass_ids", "lag_cutoffs", "m", "T", "P"} : self[a] = observed[a])


\* the conditional counts of trial t, from the order drawn in it
TrialCounts(t) == Spatial_calc(self, Permuted(args.y, args.nrp[t]), args.w, FALSE).T

\* the sum over all the lag classes l of the statistic of chi2(T[l], transitions)
StatisticOverLagClasses(T, transitions) ==
    VSum([l \in DOMAIN T |-> chi2(T[l], transitions).value[0]])

\* C24: the constructor completes every trial whatever k and m are (no trial
\* fails on the number of lag classes), and the realized statistic of trial t
\* is the sum over all m lag classes l of chi2(T_perm[l], transitions)[0], the
\* statistic that x2 is for the observed T.
TrialStatisticOverAllLagClasses ==
    /\ call[1] = "Spatial_Markov" => outcome.raised # "IndexError"
    /\ (self.type = "Spatial_Markov" /\ args.permutations > 0) =>
          /\ hasattr(self, "_x2") =>
                self._x2 = StatisticOverLagClasses(self.T, self.transitions)
          /\ \A t \in DOMAIN self.x2_realizations :
                Bind(TrialCounts(t), LAMBDA T_perm :
                /\ DOMAIN T_perm = Range(self.m)
                /\ self.x2_realizations[t][0]
                      = StatisticOverLagClasses(T_perm, self.transitions))


(***************************************************************************)
(* giddy/markov.py: the permutation trials of Spatial_Markov in both       *)
(* modes: discrete = False with user cutoffs (k = m), and discrete = True. *)
(***************************************************************************)
ModeLabels == 2

\* Spatial_Markov.__init__ with discrete = True and permutations: the object,
\* or what it raised
Spatial_Markov_discrete_init(y, w, fill_empty_classes, permutations, nrp) ==
    Bind(Spatial_Markov_discrete(y, w, fill_empty_classes), LAMBDA obj :
    IF permutations = 0 THEN Returned(obj)
    ELSE Bind(PermutationLoop(
                  [self |-> obj, counter |-> 0,
                   x2_realizations |-> Array2([t \in Range(permutations) |->
                                                  [c \in Range(1) |-> Zero]])],
                  y, w, permutations, nrp, 0), LAMBDA loop :
         IF loop.raised # "none" THEN loop
         ELSE Returned(
                  setattr(setattr(loop.value.self, "x2_rpvalue",
                                  x2_rpvalue(loop.value.counter, permutations)),
                          "x2_realizations", loop.value.x2_realizations))))

ModeArgs ==
    UNION {[y : Panels(NumUnits, NumPeriods, Range(ModeLabels)),
            w : {NextUnit(NumUnits)},
            discrete : BOOLEAN,
            fill_empty_classes : {FALSE},
            permutations : {N},
            nrp : {Array1(s) : s \in [Range(N) -> Orders(NumUnits)]}] :
               N \in 1 .. MaxPerms}

ModeInit ==
    /\ args \in ModeArgs
    /\ self = [type |-> "none"]
    /\ P = None
    /\ call = NoCall
    /\ outcome = Returned(None)

\* Spatial_Markov(y, w, permutations = N, discrete = True), or
\* Spatial_Markov(y, w, permutations = N, cutoffs = .., lag_cutoffs = ..)
New_Spatial_Markov_mode ==
    /\ call = NoCall
    /\ self.type = "none"
    /\ call' = <<"Spatial_Markov">>
    /\ \E built \in {IF args.discrete
                     THEN Spatial_Markov_discrete_init(args.y, args.w,
                              args.fill_empty_classes, args.permutations, args.nrp)
                     ELSE Bind(Cutoffs(ModeLabels), LAMBDA cutoffs :
                          Spatial_Markov_init(args.y, args.w, ModeLabels, ModeLabels,
                              cutoffs, cutoffs, args.fill_empty_classes,
                              args.permutations, args.nrp))} :
          /\ outcome' = IF built.raised = "none" THEN Returned(None) ELSE built
          /\ self' = IF built.raised = "none" THEN built.value ELSE self
    /\ UNCHANGED <<args, P>>

ModeNext ==
    \/ New_Spatial_Markov_mode
    \/ Spatial_chi2
    \/ Spatial_x2

ModeSpec == ModeInit /\ [][ModeNext]_vars


(***************************************************************************)
(* Properties of the trials in both modes (ModeSpec).                      *)
(***************************************************************************)
\* the own classes of a panel: its labels numbered in ascending order
\* (discrete), or its classes by the cutoffs (continuous)
OwnClasses(y) ==
    IF args.discrete
    THEN Array2([u \in DOMAIN y |-> [t \in DOMAIN y[u] |-> ClassIndex(np_unique(args.y), y[u][t])]])
    ELSE UserDefined(y, Cutoffs(ModeLabels))

\* the lag classes of the units as trial t permutes them: the category of the
\* neighbour (discrete), or the class of the lag of the permuted y (continuous)
PermutedLagClasses(t) ==
    Bind(Permuted(args.y, args.nrp[t]), LAMBDA permuted :
    IF args.discrete
    THEN Array2([u \in DOMAIN permuted |-> [p \in DOMAIN permuted[u] |->
                    OwnClasses(permuted)[args.w[u]][p]]])
    ELSE UserDefined(Array2([u \in DOMAIN permuted |-> [p \in DOMAIN permuted[u] |->
                                permuted[args.w[u]][p]]]), Cutoffs(ModeLabels)))

\* the number of (unit, period pair) occurrences from own class a to own class
\* b whose lag class is l at the earlier period
CountsFrom(class_ids, lclass_ids, l, a, b) ==
    Rat(Cardinality({ut \in Occurrences(class_ids, a, b) : lclass_ids[ut[1]][ut[2]] = l}), 1)

\* C25: in both modes, the conditional counts of trial t are built from the
\* observed own classes class_ids and the lag classes of the units as trial t
\* permutes them: the realized statistic of the trial is the statistic of those
\* counts, and the lag classes that the last trial leaves on the object are
\* those of its permuted units.
TrialLagClassesFromPermutedUnits ==
    (self.type = "Spatial_Markov" /\ args.permutations > 0) =>
        /\ self.class_ids = OwnClasses(args.y)
        /\ self.lclass_ids = PermutedLagClasses(args.permutations - 1)
        /\ \A t \in Range(args.permutations) :
              Bind(PermutedLagClasses(t), LAMBDA lclass_ids :
              Bind(Array3([l \in Range(self.m) |-> [a \in Range(self.k) |->
                              [b \in Range(self.k) |->
                                  CountsFrom(self.class_ids, lclass_ids, l, a, b)]]]),
                   LAMBDA T_perm :
              self.x2_realizations[t][0]
                  = StatisticOverLagClasses(T_perm, self.transitions)))


(***************************************************************************)
(* giddy/ergodic.py: mfpt, the body of "for desti in range(k)" for one     *)
(* destination, taken a step at a time: the first solve, every pass of the *)
(* loop that widens index0, its exit, and the second solve.  self         *)
(* holds the local variables: P (after the repair of its empty rows),      *)
(* p_calc, index0, setx, and pc, the place reached.                        *)
(***************************************************************************)
\* the value of m and what leaves the try statement once the loop is over
RepairExit(p_calc, index0) ==
    Bind(SortedIdx(Range(Len0(p_calc)) \ index0), LAMBDA none0 :
    Bind(LinalgSolve(SubMatrix(p_calc, none0), [s \in DOMAIN none0 |-> One]), LAMBDA second :
        IF Len0(none0) >= 1 /\ second.singular THEN LinAlgError
        ELSE Returned(Array1([s \in Range(Len0(p_calc)) |->
                 IF s \in index0 THEN Inf
                 ELSE second.x[CHOOSE q \in DOMAIN none0 : none0[q] = s]]))))

\* largest number of observed transitions behind a matrix handed to the repair
RepairMoves == 3

RepairInit ==
    /\ \E k \in 3 .. MaxK :
          /\ P \in {RowNormalize(CountsOf(k, s)) : s \in SortedMoves(k, RepairMoves)}
          /\ \E desti \in Range(k) : args = [desti |-> desti, fill_empty_classes |-> TRUE]
    /\ num_communication_classes(fill_empty_diagonals(P)) # 1
    /\ self = [type |-> "none"]
    /\ call = NoCall
    /\ outcome = Returned(None)

\* "try: m[none0] = np.linalg.solve(p_calc, b)", and the except clause up to
\* the first setx when the matrix is singular and some row of p_calc is 0
Solve_first ==
    /\ self.type = "none"
    /\ call' = <<"mfpt", args.desti>>
    /\ \E P1 \in {fill_empty_diagonals(P)} :
       \E p_calc \in {MatSub(Identity(Len0(P1) - 1), DeleteRowCol(P1, args.desti))} :
       \E first \in {LinalgSolve(p_calc, [s \in DOMAIN p_calc |-> One])} :
       \E rows0 \in {{s \in DOMAIN p_calc : \A c \in DOMAIN p_calc : p_calc[s][c] = Zero}} :
          IF ~first.singular
          THEN /\ self' = [type |-> "mfpt", pc |-> "done", P |-> P1, p_calc |-> p_calc]
               /\ outcome' = Returned(first.x)
          ELSE IF rows0 = {}
          THEN /\ self' = [type |-> "mfpt", pc |-> "done", P |-> P1, p_calc |-> p_calc]
               /\ outcome' = Returned(Array1([s \in DOMAIN p_calc |-> Inf]))
          ELSE /\ self' = [type |-> "mfpt", pc |-> "while", P |-> P1, p_calc |-> p_calc,
                           index0 |-> rows0, setx |-> SetX(p_calc, rows0)]
               /\ outcome' = Returned(None)
    /\ UNCHANGED <<args, P>>

\* fault: the pass replaces index0 by setx instead of adding setx to it
Repair_expand_replace ==
    /\ self.type = "mfpt"
    /\ self.pc = "while"
    /\ ~(self.setx \subseteq self.index0)
    /\ self' = [self EXCEPT !.index0 = self.setx,
                            !.setx = SetX(self.p_calc, self.setx)]
    /\ UNCHANGED <<args, P, call, outcome>>

\* one pass of "while not setx.issubset(index0)"
Repair_expand ==
    /\ self.type = "mfpt"
    /\ self.pc = "while"
    /\ ~(self.setx \subseteq self.index0)
    /\ self' = [self EXCEPT !.index0 = self.index0 \cup self.setx,
                            !.setx = SetX(self.p_calc, self.index0 \cup self.setx)]
    /\ UNCHANGED <<args, P, call, outcome>>

\* the test of the loop finds nothing to add and the loop is left
Repair_exit ==
    /\ self.type = "mfpt"
    /\ self.pc = "while"
    /\ self.setx \subseteq self.index0
    /\ self' = [self EXCEPT !.pc = "solve"]
    /\ UNCHANGED <<args, P, call, outcome>>

\* none0, and the second solve on what remains
Solve_second ==
    /\ self.type = "mfpt"
    /\ self.pc = "solve"
    /\ self' = [self EXCEPT !.pc = "done"]
    /\ \E out \in {RepairExit(self.p_calc, self.index0)} : outcome' = out
    /\ UNCHANGED <<args, P, call>>

RepairNext ==
    \/ Solve_first
    \/ Repair_expand
    \/ Repair_exit
    \/ Solve_second

RepairSpec == RepairInit /\ [][RepairNext]_vars

\* a pass of the loop, and its exit, are taken once they can be: the loop
\* runs in one thread and nothing in it waits
FairRepairSpec == RepairSpec /\ WF_vars(Repair_expand) /\ WF_vars(Repair_exit)


(***************************************************************************)
(* Properties of the repair of a singular system (RepairSpec).  An index s *)
(* of p_calc stands for the state Skip(s, desti) of the chain.             *)
(***************************************************************************)
\* index r has a non-zero transition probability to index c
Link(r, c) == self.P[Skip(r, args.desti)][Skip(c, args.desti)] # Zero

\* state r has a non-zero transition probability to a state other than itself
\* that is not excluded: the destination, or an index outside S
LinkOutside(r, S) ==
    \/ self.P[Skip(r, args.desti)][args.desti] # Zero
    \/ \E c \in DOMAIN self.p_calc : c # r /\ c \notin S /\ Link(r, c)

\* the rows of p_calc that are 0: the absorbing states other than desti
AbsorbingIndices == {s \in DOMAIN self.p_calc : self.P[Skip(s, args.desti)][Skip(s, args.desti)] = One}

\* the claim as made: a pass adds exactly the indices all of whose out-links
\* go to excluded indices, and none that has an out-link elsewhere too
ExpansionAddsOnlyIndicesLinkedToExcludedAlone ==
    [][(self.type = "mfpt" /\ self.pc = "while" /\ self'.pc = "while") =>
          self'.index0 \ self.index0 =
              {r \in DOMAIN self.p_calc \ self.index0 :
                  (\E c \in self.index0 : Link(r, c)) /\ ~LinkOutside(r, self.index0)}]_vars

\* C26: every pass of the loop adds to the excluded set exactly the indices
\* not in it that have a non-zero out-link to some excluded index, whether or
\* not they have out-links to other indices or to the destination as well.
ExpansionAddsEveryIndexLinkedToExcluded ==
    [][(self.type = "mfpt" /\ self.pc = "while" /\ self'.pc = "while") =>
          /\ self.index0 \subseteq self'.index0
          /\ self'.index0 \ self.index0 =
                {r \in DOMAIN self.p_calc \ self.index0 : \E c \in self.index0 : Link(r, c)}]_vars

\* after the first pass the excluded set holds an index that was added for
\* its out-link to an absorbing state and that has an out-link to the
\* destination as well
AddedDespiteLinkToDestination ==
    /\ self.type = "mfpt"
    /\ self.pc = "while"
    /\ \E r \in self.index0 \ AbsorbingIndices :
          /\ \E c \in AbsorbingIndices : Link(r, c)
          /\ self.P[Skip(r, args.desti)][args.desti] # Zero


\* the loop is at its test, about to run a pass or to leave
AtLoopTest == self.type = "mfpt" /\ self.pc = "while"

\* the loop is over
LoopLeft == self.type = "mfpt" /\ self.pc \in {"solve", "done"}

\* C27: the loop that removes the unreachable subset terminates: the excluded
\* set always lies within the k-1 indices of the states other than the
\* destination, a pass never takes an index out of it and adds at least one,
\* the loop is left at the first test that finds nothing to add, and every
\* call that enters the loop leaves it.
RepairLoopTerminates ==
    /\ [](AtLoopTest =>
            /\ self.index0 \subseteq Range(Len0(self.P) - 1)
            /\ Cardinality(self.index0) <= Len0(self.P) - 1)
    /\ [][(AtLoopTest /\ self'.pc = "while") =>
            /\ self.index0 \subseteq self'.index0
            /\ Cardinality(self'.index0) >= Cardinality(self.index0) + 1]_vars
    /\ [][(AtLoopTest /\ SetX(self.p_calc, self.index0) \subseteq self.index0) =>
            (self'.pc = "solve" /\ self'.index0 = self.index0)]_vars
    /\ [](AtLoopTest => <>LoopLeft)

\* the loop was left after two passes or more: the excluded set holds an
\* index with no out-link to an absorbing state, added for its out-link to an
\* index that an earlier pass had added
LeftAfterSeveralPasses ==
    /\ self.type = "mfpt"
    /\ self.pc = "done"
    /\ "index0" \in DOMAIN self
    /\ \E r \in self.index0 \ AbsorbingIndices : \A c \in AbsorbingIndices : ~Link(r, c)


(***************************************************************************)
(* The diagonal of mfpt for a reducible chain (SolverSpec).                *)
(***************************************************************************)
\* what state s adds to the sum behind M[d, d]: nothing when d never moves to
\* s, however long the way from s to d
Contribution(d, s) ==
    IF RepairedP[d][s] = Zero THEN Zero ELSE RMul(RepairedP[d][s], outcome.value[s][d])

\* state d is in no recurrent class
Transient(d) == \A S \in RecurrentSets(RepairedP) : d \notin S

\* mfpt returned a matrix for a chain of several communication classes
MfptOfReducibleReturned ==
    /\ call[1] = "mfpt"
    /\ outcome.raised = "none"
    /\ ~Irreducible(RepairedP)

\* C28: for a reducible chain, the M[d, d] that mfpt returns is 1 plus the sum
\* over the states s other than d of P[d, s] * M[s, d], a state s with
\* P[d, s] = 0 adding 0 also when M[s, d] is +inf; it is 1 for every absorbing
\* state d and +inf for every transient state d.
DiagonalOfReducibleChain ==
    MfptOfReducibleReturned =>
        \A d \in DOMAIN P :
            /\ outcome.value[d][d] =
                  RAdd(VSum([q \in Range(Len0(P) - 1) |-> Contribution(d, Skip(q, d))]), One)
            /\ RepairedP[d][d] = One => outcome.value[d][d] = One
            /\ Transient(d) => outcome.value[d][d] = Inf

\* mfpt returned for a chain with an absorbing state d that never moves to a
\* state s from which d is out of reach, and with a transient state
DiagonalPastInfiniteSuccessor ==
    /\ MfptOfReducibleReturned
    /\ \E d, s \in DOMAIN P :
          /\ RepairedP[d][d] = One
          /\ s # d
          /\ outcome.value[s][d] = Inf
          /\ outcome.value[d][d] = One
    /\ \E t \in DOMAIN P : Transient(t) /\ outcome.value[t][t] = Inf


(***************************************************************************)
(* The pooled counts of a Spatial_Markov object (Spec).                    *)
(***************************************************************************)
\* the counts of the moves from a to b summed over the lag classes
SumOverLagClasses(T, a, b) == VSum([l \in DOMAIN T |-> T[l][a][b]])

\* the claim as made: transitions is k x k like every T[l], k = self.k, and
\* each of its cells is the sum of that cell over the lag classes
TransitionsPoolConditionalCounts ==
    self.type = "Spatial_Markov" =>
        /\ Len0(self.transitions) = self.k
        /\ \A a \in DOMAIN self.transitions : Len0(self.transitions[a]) = self.k
        /\ \A l \in DOMAIN self.T :
              Len0(self.T[l]) = self.k /\ \A a \in DOMAIN self.T[l] : Len0(self.T[l][a]) = self.k
        /\ \A a, b \in Range(self.k) :
              self.transitions[a][b] = SumOverLagClasses(self.T, a, b)


(***************************************************************************)
(* States that no regime observes, in the test of homogeneity              *)
(* (HomogeneitySpec).                                                      *)
(***************************************************************************)
\* no regime has a move that starts or ends in state i
StructurallyEmpty(i) ==
    \A g \in DOMAIN Regimes : \A j \in DOMAIN Regimes[g] :
        Regimes[g][i][j] = Zero /\ Regimes[g][j][i] = Zero

\* the regime matrices without row i and column i
WithoutState(i) ==
    Array3([g \in DOMAIN Regimes |-> [a \in Range(Len0(Regimes[g]) - 1) |->
        [b \in Range(Len0(Regimes[g]) - 1) |-> Regimes[g][Skip(a, i)][Skip(b, i)]]]])

\* the claim as made: a state that no regime observes as an origin adds
\* nothing to dof, which is the sum of (b_i - 1) * (A_i - 1) over the states
\* that some regime observes, and the same as for the regime matrices
\* without a state that has no move at all
EmptyStatesAddNoDof ==
    call = <<"homogeneity">> =>
        LET r == Len0(Regimes[0])
        IN /\ self.dof = SumInts([i \in Range(r) |->
                            IF RegimesObserving(i) = 0 THEN 0
                            ELSE (RegimesObserving(i) - 1) * (PooledNonZero(i) - 1)], r)
           /\ \A i \in Range(r) : (r > 1 /\ StructurallyEmpty(i)) =>
                 self.dof = homogeneity(WithoutState(i)).dof

==============================================================================
